---- MODULE Spec2Model ----
(***************************************************************************)
(* Model of the kraken-trading-bot execution core:                         *)
(*   - TradingEngine (src/trading_engine.py): position lifecycle, the      *)
(*     trading loop, BUY gating by the AI ensemble, SELL with retry,       *)
(*     dust cleanup and trailing stop;                                     *)
(*   - AIEnsemble.generate_signal (src/ai_ensemble.py);                    *)
(*   - BotManager's trading tick (src/bot_manager.py);                     *)
(*   - RiskCalculator's risk state (src/risk_calculator.py).               *)
(*                                                                         *)
(* Fixed-point units (Python floats are modelled as scaled integers):      *)
(*   price      : tenths of a dollar        (1000 = $100.00)               *)
(*   money      : cents                     (100  = $1.00)                 *)
(*   quantity   : 1/10000 of a unit         (usd/price = cents*1000/price) *)
(*   percent    : tenths of a percent       (20   = 2.0%)                  *)
(*   confidence : 1/10000                   (6500 = 0.65)                  *)
(* so quantity*price is in 1/1000 cent: $1.00 = 100000.                    *)
(***************************************************************************)
EXTENDS Integers, Sequences, FiniteSets, TLC

VARIABLES
    is_running,      \* TradingEngine.is_running
    ai_enabled,      \* TradingEngine.ai_enabled (AI_ENSEMBLE_ENABLED)
    config,          \* TradingEngine.config: the set of enabled symbols
    positions,       \* TradingEngine.positions: symbol -> position record
    positions_file,  \* contents of positions.json
    trades_history,  \* TradingEngine.trades_history
    trades_file,     \* contents of trades_history.json
    pc,              \* where the trading-loop thread is
    todo,            \* pairs of the tick not yet processed
    checkTodo,       \* snapshot of position keys not yet checked
    sell,            \* frame of the _execute_sell_with_retry call in progress
    tick,            \* loop iterations and starts so far, positions at tick start
    ev,              \* what the last step did (orders, removals, alerts)
    stops,           \* the stop _check_positions last used for each position
    bm,              \* BotManager state
    rc,              \* RiskCalculator state
    kc,              \* KrakenClient rate gate, clock and callers in _make_request
    macd,            \* TradingEngine.macd_crossovers, the clock and the last check
    th               \* the trading-loop threads start() created, and the caller of start()/stop()

vars == <<is_running, ai_enabled, config, positions, positions_file,
          trades_history, trades_file, pc, todo, checkTodo, sell, tick, ev,
          stops, bm, rc, kc, macd, th>>

engineVars == <<is_running, ai_enabled, config, positions, positions_file,
                trades_history, trades_file, pc, todo, checkTodo, sell, tick,
                ev, stops>>

-----------------------------------------------------------------------------
(* Bounds of the model *)

MaxTicks == 2          \* trading-loop iterations explored
MaxStarts == 1         \* successful start() calls explored
MaxTrades == 3         \* length of trades_history explored
MaxBotTicks == 2       \* BotManager loop iterations explored
MaxRiskOps == 6        \* RiskCalculator updates explored
MaxCalls == 2          \* _make_request calls explored per caller
MaxAdvances == 2       \* clock advances explored

(* Program constants *)

MIN_ORDER_VALUE == 100000       \* $1.00 in quantity*price units
MinUsd == 100                   \* "usd_available < 1" / "investment < 1", cents
stop_loss_percent == 20         \* STOP_LOSS_PERCENT default 2.0
take_profit_percent == 30       \* TAKE_PROFIT_PERCENT default 3.0
max_order_size == 10000         \* MAX_ORDER_SIZE_USD default 100
default_allocation == 10        \* allocation default 10 (%)
ai_min_confidence == 6500       \* AI_MIN_CONFIDENCE default 0.65
ProfitProtectionPercent == 20   \* "elif pnl_percent >= 2.0"
TrailActivationPercent == 50    \* "profit_from_entry >= 5.0"
TrailFactor == 970              \* "highest_price * 0.97", per mille
RetriesAuto == 5                \* _execute_sell_with_retry default max_retries
RetriesWrapped == 3             \* _execute_sell: max_retries=3
BackoffSeconds == 3             \* wait_time = (attempt + 1) * 3

Symbols == {"A", "B"}
SymOrder == <<"A", "B">>

\* prices the ticker can report (positive; tenths of a dollar)
Prices == {979, 1000, 1060}

\* free USD balances fetch_balance can report, cents
UsdBalances == {50, 200000}

Min(a, b) == IF a <= b THEN a ELSE b
Max(a, b) == IF a >= b THEN a ELSE b

\* the strategies configured for each pair (trading_pairs_config.json)
Strategies(sym) == IF sym = "A" THEN {"macd_supertrend"} ELSE {"momentum"}

\* the configurations explored: no pair, one pair with the advisory on,
\* both pairs with the advisory off
ConfigFiles(enabled) == IF enabled THEN {{}, {"A"}} ELSE {{}, {"A", "B"}}

-----------------------------------------------------------------------------
(* Records *)

NoPos == [entry_price |-> 0, quantity |-> 0, strategy |-> "none",
          highest_price |-> 0, ai_stop_loss_percent |-> -1,
          ai_take_profit_percent |-> -1, order_id |-> "none",
          trade_id |-> FALSE]

NoAI == [status |-> "not_consulted", signal |-> "NONE", confidence |-> 0,
         stop_loss_percent |-> -1, take_profit_percent |-> -1]

NoSell == [symbol |-> "none", price |-> 0, reason |-> "none", attempt |-> 0,
           max_retries |-> 0, ret |-> "none", trades0 |-> 0,
           accepted |-> FALSE, orders |-> 0]

NoEv == [kind |-> "none", sym |-> "none", price |-> 0, pos |-> NoPos,
         reason |-> "none", side |-> "none", order |-> "none", qty |-> 0,
         free |-> -1, ai |-> NoAI, alerts |-> 0, critical |-> 0,
         attempt |-> 0, all_failed |-> FALSE, appended |-> 0,
         max_retries |-> 0, orders |-> 0, wait |-> 0, refetch |-> "none",
         held |-> {}, sync |-> "none"]

Event(kind, sym, price, pos) ==
    [NoEv EXCEPT !.kind = kind, !.sym = sym, !.price = price, !.pos = pos]

\* dict helpers
Tracked(sym) == sym \in DOMAIN positions
Remove(ps, sym) == [s \in (DOMAIN ps) \ {sym} |-> ps[s]]
Put(ps, sym, p) == [s \in (DOMAIN ps) \cup {sym} |-> IF s = sym THEN p ELSE ps[s]]
EmptyDict == [s \in {} |-> NoPos]

\* list(d.keys()) / the enabled pairs, in the fixed order of SymOrder
KeysOf(S) == SelectSeq(SymOrder, LAMBDA s : s \in S)

-----------------------------------------------------------------------------
(* AIEnsemble.generate_signal, src/ai_ensemble.py *)

w_sentiment == 20      \* weights['sentiment'] = 0.20
w_technical == 35      \* weights['technical'] = 0.35
w_macro == 15          \* weights['macro'] = 0.15
w_deepseek == 30       \* weights['deepseek'] = 0.30
min_confidence == 6500 \* AIEnsemble.min_confidence = 0.65

DefaultAIStop == 20    \* .get('stop_loss_percent', 2.0)
DefaultAITake == 35    \* .get('take_profit_percent', 3.5)

ModelOut(sig, conf, sl, tp) ==
    [signal |-> sig, confidence |-> conf, failed |-> FALSE,
     stop_loss_percent |-> sl, take_profit_percent |-> tp]

\* _neutral_signal(): HOLD at 0.5 with empty details
neutral_signal ==
    [signal |-> "HOLD", confidence |-> 50, failed |-> TRUE,
     stop_loss_percent |-> DefaultAIStop, take_profit_percent |-> DefaultAITake]

\* what the four models can answer (confidence in percent); "failed" is a
\* model that raised or timed out and was replaced by _neutral_signal()
SentimentOuts == {ModelOut("BUY", 90, DefaultAIStop, DefaultAITake),
                  ModelOut("SELL", 90, DefaultAIStop, DefaultAITake)}
TechnicalOuts == {ModelOut("BUY", 95, DefaultAIStop, DefaultAITake),
                  ModelOut("SELL", 95, DefaultAIStop, DefaultAITake)}
MacroOuts == {neutral_signal,
              ModelOut("BUY", 70, DefaultAIStop, DefaultAITake)}
DeepseekOuts == {neutral_signal,
                 ModelOut("BUY", 95, DefaultAIStop, DefaultAITake),
                 ModelOut("BUY", 95, 30, 200),
                 ModelOut("SELL", 90, DefaultAIStop, DefaultAITake)}

Score(sig, s, t, m, d) ==
      (IF s.signal = sig THEN s.confidence * w_sentiment ELSE 0)
    + (IF t.signal = sig THEN t.confidence * w_technical ELSE 0)
    + (IF m.signal = sig THEN m.confidence * w_macro ELSE 0)
    + (IF d.signal = sig THEN d.confidence * w_deepseek ELSE 0)

\* _combine_signals: weighted vote; BUY/SELL need the top score and a score
\* strictly above min_confidence, anything else is HOLD at the hold score
combine_signals(s, t, m, d) ==
    LET buy_score == Score("BUY", s, t, m, d)
        sell_score == Score("SELL", s, t, m, d)
        hold_score == Score("HOLD", s, t, m, d)
        max_score == Max(buy_score, Max(sell_score, hold_score))
        final == IF max_score = buy_score /\ buy_score > min_confidence
                 THEN <<"BUY", buy_score>>
                 ELSE IF max_score = sell_score /\ sell_score > min_confidence
                 THEN <<"SELL", sell_score>>
                 ELSE <<"HOLD", hold_score>>
    IN [status |-> "ok", signal |-> final[1], confidence |-> final[2],
        stop_loss_percent |-> d.stop_loss_percent,
        take_profit_percent |-> d.take_profit_percent]

\* _fallback_signal(): HOLD at 0.3 with the default parameters
fallback_signal ==
    [status |-> "fallback", signal |-> "HOLD", confidence |-> 3000,
     stop_loss_percent |-> DefaultAIStop, take_profit_percent |-> DefaultAITake]

\* generate_signal: the combined vote, or the fallback when the ensemble
\* itself raises
generate_signal(s, t, m, d, ensembleRaises) ==
    IF ensembleRaises THEN fallback_signal ELSE combine_signals(s, t, m, d)

\* every result generate_signal can hand to the engine
AIResults ==
    {generate_signal(s, t, m, d, r) :
        s \in SentimentOuts, t \in TechnicalOuts, m \in MacroOuts,
        d \in DeepseekOuts, r \in BOOLEAN}

\* the engine's try block around the consultation raised (fetch_ohlcv, the
\* indicator helpers, the event loop, a missing key in the result)
AIRaised == [NoAI EXCEPT !.status = "raised"]

\* what one consultation of the advisory can come to
AIOutcomes == AIResults \cup {AIRaised}

-----------------------------------------------------------------------------
(* TradingEngine: price arithmetic *)

\* pnl_percent = ((current_price - entry_price) / entry_price) * 100
PnlAtMost(entry, cur, pct) == (cur - entry) * 1000 <= pct * entry
PnlAtLeast(entry, cur, pct) == (cur - entry) * 1000 >= pct * entry

\* quantity = usd_amount / price
QuantityFor(usd_amount, price) == (usd_amount * 1000) \div price

\* the stop-loss / take-profit percentage in force for a position
StopLossPercentOf(pos) ==
    IF pos.ai_stop_loss_percent # -1 THEN pos.ai_stop_loss_percent
    ELSE stop_loss_percent
TakeProfitPercentOf(pos) ==
    IF pos.ai_take_profit_percent # -1 THEN pos.ai_take_profit_percent
    ELSE take_profit_percent

\* variant of HighestAfter that follows the price down as well as up
C37_HighestFollowsPrice(pos, cur) ==
    IF pos.strategy = "macd_supertrend" THEN cur ELSE pos.highest_price

\* position['highest_price'] after the check has seen current_price
HighestAfter(pos, cur) ==
    IF pos.strategy = "macd_supertrend" /\ cur > pos.highest_price
    THEN cur ELSE pos.highest_price

\* the trailing stop is active: highest price at least 5% above entry
TrailingActive(pos, highest) ==
    /\ pos.strategy = "macd_supertrend"
    /\ (highest - pos.entry_price) * 1000 >= TrailActivationPercent * pos.entry_price

\* variant of EffectiveStop that trails the current price
C9_EffectiveStopFromCurrent(pos, cur) ==
    LET base == pos.entry_price * (1000 - StopLossPercentOf(pos))
        trailing == cur * TrailFactor
    IN IF TrailingActive(pos, cur) /\ trailing > pos.entry_price * 1000
       THEN Max(base, trailing)
       ELSE base

\* stop_loss_price of _check_positions, times 1000: the percentage stop,
\* raised to 3% below the highest price once the trailing stop is active
EffectiveStop(pos, cur) ==
    LET base == pos.entry_price * (1000 - StopLossPercentOf(pos))
        highest == HighestAfter(pos, cur)
        trailing == highest * TrailFactor
    IN IF TrailingActive(pos, highest) /\ trailing > pos.entry_price * 1000
       THEN Max(base, trailing)
       ELSE base

\* variant of IsDust that compares with one cent
C6_IsDustOneCent(quantity, price) ==
    quantity * price < MIN_ORDER_VALUE \div 100

\* "position_value_usd < MIN" of the dust checks
IsDust(quantity, price) == quantity * price < MIN_ORDER_VALUE

\* strategy_name of _check_buy_signal
StrategyName(strategies) ==
    IF "macd_supertrend" \in strategies THEN "macd_supertrend"
    ELSE IF "momentum" \in strategies THEN "momentum"
    ELSE IF "mean_reversion" \in strategies THEN "mean_reversion"
    ELSE IF "scalping" \in strategies THEN "scalping"
    ELSE "unknown"

\* save_positions / save_trades
Saved(data) == [exists |-> TRUE, data |-> data]

-----------------------------------------------------------------------------
(* TradingEngine: construction, start, stop *)

\* BotManager.__init__: not running, not paused, no positions; with the
\* loop's position and the evaluations made in the current iteration
BotInit ==
    [pc |-> "off", is_running |-> FALSE, pause_trading |-> FALSE,
     positions |-> [s \in {} |-> 0], total_pnl |-> 0, todo |-> <<>>,
     n |-> 0, startPos |-> {}, log |-> <<>>,
     drawdown_exceeded |-> FALSE, risk_paused |-> FALSE]

\* the answer of should_stop_trading before any call was made
NotAsked == [stop |-> FALSE, reason |-> "not asked"]

\* no call of calculate_position_size since the calculator last changed
NoSize ==
    [called |-> FALSE, account_balance |-> 0, signal_confidence |-> 0,
     volatility_regime |-> "", current_exposure |-> 0,
     strategy_win_rate |-> -1, size |-> 0]

\* RiskCalculator.__init__: the performance tracking starts at zero
RiskInit ==
    [current_drawdown |-> 0, peak_balance |-> 0, daily_pnl |-> 0,
     consecutive_losses |-> 0, consecutive_wins |-> 0, ops |-> 0,
     answer |-> NotAsked, error |-> "none", sized |-> NoSize,
     last_balance |-> 0]

\* KrakenClient.  Time in milliseconds.
min_request_interval == 100    \* 1.0 / config.API_RATE_LIMIT, 10 per second
StartTime == 1000              \* time.time() when the first caller arrives

\* threads that call _make_request on the shared client
Callers == {"trading", "monitoring"}

\* the paper ledger: USD in tenths of a dollar, the base asset in units
PaperLedger(usd, base) == [USD |-> usd, base |-> base]

\* the last call of place_order: none yet
NoPaperOrder ==
    [status |-> "none", side |-> "none", type |-> "none", amount |-> 0,
     price |-> 0, before |-> PaperLedger(0, 0)]

\* KrakenClient.__init__: last_request_time = 0; no caller is in
\* _make_request, nothing was sent or signed
ClientInit ==
    [now |-> StartTime, last_request_time |-> 0,
     thread |-> [c \in Callers |->
                   [pc |-> "idle", is_private |-> FALSE, wake |-> 0]],
     calls |-> [c \in Callers |-> 0],
     sends |-> 0, sent_at |-> -1, signed |-> 0, last_nonce |-> -1,
     advances |-> 0,
     \* self.paper_balance = {'USD': 10000.0}, self.paper_orders = {}
     paper_balance |-> PaperLedger(100000, 0), paper_orders |-> 0,
     order |-> NoPaperOrder]

NoStop == [stop |-> 0, active |-> FALSE]

\* the remembered stops, forgotten for every position that is no longer
\* the one they were computed for
StopsFor(old, new, st) ==
    [s \in Symbols |->
        IF s \in DOMAIN new /\ s \in DOMAIN old /\ new[s].entry_price = old[s].entry_price
           /\ new[s].order_id = old[s].order_id
        THEN st[s] ELSE NoStop]

NoTick == [n |-> 0, starts |-> 0, startPos |-> {}]

\* a position an earlier run of the program left in the positions file:
\* bought at 90.00, its new high of 106.00 saved, not sold since
StoredPosition ==
    [entry_price |-> 900, quantity |-> 10000, strategy |-> "macd_supertrend",
     highest_price |-> 1060, ai_stop_loss_percent |-> DefaultAIStop,
     ai_take_profit_percent |-> DefaultAITake, order_id |-> "order",
     trade_id |-> FALSE]

\* the positions file found at construction: none, or the one an earlier
\* run saved
StoredFiles ==
    {[exists |-> FALSE, data |-> EmptyDict], Saved("A" :> StoredPosition)}

\* start() calls that create a thread, and ticks of one thread, explored
MaxLoopStarts == 2
MaxLoopTicks == 2

\* the threads start() can create, in the order of their creation
LoopThreads == 1 .. MaxLoopStarts

\* "self.trading_thread = None"
NoThread == 0

\* after construction: not running, no thread, nobody inside start()/stop()
ThreadsInit ==
    [is_running |-> FALSE, ctl |-> "idle", trading_thread |-> NoThread,
     pc |-> [t \in LoopThreads |-> "none"],
     ticks |-> [t \in LoopThreads |-> 0], started |-> 0, last |-> "none"]

\* "symbol not in self.macd_crossovers"
NoCrossover == -1

\* the last call of _check_macd_crossover: none yet
NoMacdCall == [called |-> FALSE, symbol |-> "none", macd_line |-> 0,
               signal_line |-> 0, result |-> FALSE]

\* no crossover recorded; stale[s] remembers that the crossover of s expired
\* and that the MACD has been above the signal line in every call since
MacdInit ==
    [now |-> 0, macd_crossovers |-> [s \in Symbols |-> NoCrossover],
     stale |-> [s \in Symbols |-> FALSE], last |-> NoMacdCall,
     calls |-> 0, advances |-> 0]

Init ==
    /\ is_running = FALSE
    /\ ai_enabled \in BOOLEAN
    /\ config = {}
    /\ positions = EmptyDict
    /\ positions_file \in StoredFiles
    /\ trades_history = <<>>
    /\ trades_file = [exists |-> FALSE, data |-> <<>>]
    /\ pc = "off"
    /\ todo = <<>>
    /\ checkTodo = <<>>
    /\ sell = NoSell
    /\ tick = NoTick
    /\ ev = NoEv
    /\ stops = [s \in Symbols |-> NoStop]
    /\ bm = BotInit
    /\ rc = RiskInit
    /\ kc = ClientInit
    /\ macd = MacdInit
    /\ th = ThreadsInit

\* quantities the exchange can report for a holding found at startup
RecoverQuantities == {102}

\* the position sync_positions_from_kraken creates for an untracked holding
Recovered(price, quantity) ==
    [entry_price |-> price, quantity |-> quantity, strategy |-> "unknown",
     highest_price |-> price, ai_stop_loss_percent |-> -1,
     ai_take_profit_percent |-> -1, order_id |-> "recovered",
     trade_id |-> FALSE]

\* a sync that re-creates every enabled holding, tracked or not
C23_SyncReplacesTracked(ps, cfg, held, price, quantity, tickerOk) ==
    [s \in (DOMAIN ps) \cup (IF tickerOk THEN cfg \cap held ELSE {}) |->
        IF s \in cfg \cap held /\ tickerOk THEN Recovered(price, quantity)
        ELSE ps[s]]

\* sync_positions_from_kraken: every enabled pair with a positive balance
\* that is not tracked is recovered at the current price
SyncedPositions(ps, cfg, held, price, quantity, tickerOk) ==
    [s \in (DOMAIN ps) \cup (IF tickerOk THEN cfg \cap held ELSE {}) |->
        IF s \in DOMAIN ps THEN ps[s] ELSE Recovered(price, quantity)]

\* load_positions: the file's content, or the dict as it is without a file
LoadedPositions ==
    IF positions_file.exists THEN positions_file.data ELSE positions

\* start(): refuse when running or when the API test fails; otherwise load
\* config, positions and trades, sync with the exchange, set is_running
\* and start the trading-loop thread
Start ==
    /\ pc \in {"off", "done"}
    /\ \E apiOk \in BOOLEAN, cfgFile \in ConfigFiles(ai_enabled), syncOk \in BOOLEAN,
          held \in SUBSET Symbols, price \in Prices,
          quantity \in RecoverQuantities, tickerOk \in BOOLEAN :
          IF is_running \/ ~apiOk
          THEN /\ ev' = Event("start_refused", "none", 0, NoPos)
               /\ UNCHANGED <<is_running, config, positions, positions_file,
                              trades_history, pc, tick>>
          ELSE LET loaded == LoadedPositions
                   synced == IF syncOk
                             THEN SyncedPositions(loaded, cfgFile, held, price,
                                                  quantity, tickerOk)
                             ELSE loaded
               IN /\ tick.starts < MaxStarts
                  /\ tick' = [tick EXCEPT !.starts = @ + 1]
                  /\ config' = cfgFile
                  /\ positions' = synced
                  /\ positions_file' = IF syncOk THEN Saved(synced)
                                       ELSE positions_file
                  /\ trades_history' = IF trades_file.exists
                                       THEN trades_file.data ELSE trades_history
                  /\ is_running' = TRUE
                  /\ pc' = "loop"
                  /\ ev' = [Event("started", "none", price, NoPos)
                              EXCEPT !.alerts = 1,
                                     !.held = IF syncOk THEN held ELSE {},
                                     !.sync = IF ~syncOk THEN "no_balance"
                                              ELSE IF tickerOk THEN "ok"
                                              ELSE "no_ticker"]
    /\ UNCHANGED <<ai_enabled, trades_file, todo, checkTodo, sell, bm, rc, kc, macd, th>>
    /\ stops' = StopsFor(positions, positions', stops)

\* stop(): clear is_running (the join only waits)
Stop ==
    /\ is_running
    /\ is_running' = FALSE
    /\ ev' = Event("stop", "none", 0, NoPos)
    /\ UNCHANGED <<ai_enabled, config, positions, positions_file,
                   trades_history, trades_file, pc, todo, checkTodo, sell,
                   tick, bm, rc, kc, macd, th>>
    /\ stops' = StopsFor(positions, positions', stops)

-----------------------------------------------------------------------------
(* TradingEngine._trading_loop *)

\* "while self.is_running": leave the loop, idle 30 s when no pair is
\* enabled, or begin a tick over the enabled pairs
LoopTop ==
    /\ pc = "loop"
    /\ IF ~is_running
       THEN /\ pc' = "done"
            /\ ev' = Event("loop_exit", "none", 0, NoPos)
            /\ UNCHANGED <<todo, tick>>
       ELSE /\ tick.n < MaxTicks
            /\ IF config = {}
               THEN /\ pc' = "loop"
                    /\ todo' = <<>>
                    /\ tick' = [tick EXCEPT !.n = @ + 1,
                                            !.startPos = DOMAIN positions]
                    /\ ev' = Event("idle", "none", 0, NoPos)
               ELSE /\ pc' = "pairs"
                    /\ todo' = KeysOf(config)
                    /\ tick' = [tick EXCEPT !.n = @ + 1,
                                            !.startPos = DOMAIN positions]
                    /\ ev' = Event("tick", "none", 0, NoPos)
    /\ UNCHANGED <<is_running, ai_enabled, config, positions, positions_file,
                   trades_history, trades_file, checkTodo, sell, bm, rc, kc, macd, th>>
    /\ stops' = StopsFor(positions, positions', stops)

\* the frame of a call of _execute_sell_with_retry
SellFrame(sym, price, reason, retries, ret) ==
    [symbol |-> sym, price |-> price, reason |-> reason, attempt |-> 0,
     max_retries |-> retries, ret |-> ret, trades0 |-> Len(trades_history),
     accepted |-> FALSE, orders |-> 0]

\* the exit _check_sell_signal considers when the stop-loss is not hit
SellReason(pos, cur, strategySell) ==
    IF PnlAtLeast(pos.entry_price, cur, take_profit_percent) THEN "TAKE_PROFIT"
    ELSE IF PnlAtLeast(pos.entry_price, cur, ProfitProtectionPercent)
    THEN "PROFIT_PROTECTION"
    ELSE IF strategySell THEN "STRATEGY"
    ELSE "none"

\* the emergency stop-loss test of _check_sell_signal
EmergencyStop(pos, cur) == PnlAtMost(pos.entry_price, cur, -stop_loss_percent)

\* a discretionary exit goes ahead: the AI says SELL with enough
\* confidence, or the consultation raised and the reason is TAKE_PROFIT
SellApproved(enabled, ai, reason) ==
    /\ enabled
    /\ IF ai.status = "raised" THEN reason = "TAKE_PROFIT"
       ELSE ai.signal = "SELL" /\ ai.confidence >= ai_min_confidence

\* variant of BuyApproved that lets the BUY through when the consultation
\* raised
C2_BuyApprovedFailOpen(enabled, ai) ==
    /\ enabled
    /\ \/ ai.status = "raised"
       \/ ai.signal = "BUY" /\ ~(ai.confidence < ai_min_confidence)

\* a BUY goes ahead only when the AI is enabled, the consultation did not
\* raise, the AI says BUY and its confidence is not below the threshold
BuyApproved(enabled, ai) ==
    /\ enabled
    /\ ai.status # "raised"
    /\ ai.signal = "BUY"
    /\ ~(ai.confidence < ai_min_confidence)

\* investment = min(usd_available * allocation / 100, max_order_size)
Investment(usd_available, allocation) ==
    Min((usd_available * allocation) \div 100, max_order_size)

\* the position _execute_buy tracks for a filled order
Bought(price, usd_amount, strategy, ai, trade_id) ==
    [entry_price |-> price, quantity |-> QuantityFor(usd_amount, price),
     strategy |-> strategy, highest_price |-> price,
     ai_stop_loss_percent |-> ai.stop_loss_percent,
     ai_take_profit_percent |-> ai.take_profit_percent,
     order_id |-> "order", trade_id |-> trade_id]

Trade(sym, action) == [symbol |-> sym, action |-> action]

\* _process_pair with a position in the pair: _check_sell_signal
CheckSellSignal(sym) ==
    LET pos == positions[sym] IN
    \E price \in Prices, strategySell \in BOOLEAN :
      /\ IF EmergencyStop(pos, price)
         THEN /\ sell' = SellFrame(sym, price, "STOP_LOSS", RetriesWrapped, "pairs")
              /\ pc' = "sell"
              /\ ev' = [Event("sell_start", sym, price, pos)
                          EXCEPT !.reason = "STOP_LOSS"]
         ELSE LET reason == SellReason(pos, price, strategySell) IN
              IF reason = "none" \/ ~ai_enabled
              THEN /\ ev' = Event(IF reason = "none" THEN "hold" ELSE "sell_blocked",
                                  sym, price, pos)
                   /\ UNCHANGED <<sell, pc>>
              ELSE \E ai \in AIOutcomes :
                     IF SellApproved(ai_enabled, ai, reason)
                     THEN /\ sell' = SellFrame(sym, price, reason, RetriesWrapped, "pairs")
                          /\ pc' = "sell"
                          /\ ev' = [Event("sell_start", sym, price, pos)
                                      EXCEPT !.ai = ai, !.reason = reason]
                     ELSE /\ ev' = [Event("sell_blocked", sym, price, pos)
                                      EXCEPT !.ai = ai, !.reason = reason]
                          /\ UNCHANGED <<sell, pc>>
      /\ UNCHANGED <<positions, positions_file, trades_history, trades_file>>

\* _execute_buy: place the market buy and, when the exchange accepts it,
\* track the position, record the entry, append the trade and save both
ExecuteBuy(sym, usd_amount, price, ai) ==
    \E orderOk \in BOOLEAN, recordOk \in BOOLEAN :
      LET strategy == StrategyName(Strategies(sym)) IN
      IF usd_amount < MinUsd
      THEN /\ ev' = [Event("buy_skipped", sym, price, NoPos) EXCEPT !.ai = ai]
           /\ UNCHANGED <<positions, positions_file, trades_history, trades_file>>
      ELSE IF ~orderOk
      THEN /\ ev' = [Event("buy_rejected", sym, price, NoPos)
                       EXCEPT !.ai = ai, !.qty = QuantityFor(usd_amount, price),
                              !.side = "BUY", !.order = "raised"]
           /\ UNCHANGED <<positions, positions_file, trades_history, trades_file>>
      ELSE IF ~recordOk
      THEN /\ positions' = Put(positions, sym,
                               Bought(price, usd_amount, strategy, ai, FALSE))
           /\ ev' = [Event("buy_unrecorded", sym, price, NoPos)
                       EXCEPT !.ai = ai, !.qty = QuantityFor(usd_amount, price),
                              !.side = "BUY", !.order = "accepted"]
           /\ UNCHANGED <<positions_file, trades_history, trades_file>>
      ELSE /\ Len(trades_history) + 1 < MaxTrades
           /\ positions' = Put(positions, sym,
                               Bought(price, usd_amount, strategy, ai, TRUE))
           /\ trades_history' = Append(trades_history, Trade(sym, "BUY"))
           /\ positions_file' = Saved(positions')
           /\ trades_file' = Saved(trades_history')
           /\ ev' = [Event("buy_filled", sym, price, NoPos)
                       EXCEPT !.ai = ai, !.qty = QuantityFor(usd_amount, price),
                              !.side = "BUY", !.order = "accepted",
                              !.alerts = 1]

\* _process_pair without a position in the pair: _check_buy_signal
CheckBuySignal(sym) ==
    /\ UNCHANGED <<sell, pc>>
    /\ \/ \* fetch_balance raises, or no strategy signals BUY
          /\ \E why \in {"pair_error", "no_signal"} :
                ev' = Event(why, sym, 0, NoPos)
          /\ UNCHANGED <<positions, positions_file, trades_history, trades_file>>
       \/ \* the balance or the investment is below $1
          /\ \E usd_available \in UsdBalances :
                /\ \/ usd_available < MinUsd
                   \/ Investment(usd_available, default_allocation) < MinUsd
                /\ ev' = Event("buy_skipped", sym, 0, NoPos)
          /\ UNCHANGED <<positions, positions_file, trades_history, trades_file>>
       \/ \* a strategy signals BUY but the AI is disabled
          /\ ~ai_enabled
          /\ ev' = [Event("buy_blocked", sym, 0, NoPos)
                      EXCEPT !.ai = [NoAI EXCEPT !.status = "disabled"]]
          /\ UNCHANGED <<positions, positions_file, trades_history, trades_file>>
       \/ \* a strategy signals BUY and the AI is consulted
          /\ ai_enabled
          /\ \E price \in Prices, usd_available \in UsdBalances, ai \in AIOutcomes :
               LET investment == Investment(usd_available, default_allocation) IN
               /\ usd_available >= MinUsd
               /\ investment >= MinUsd
               /\ IF BuyApproved(ai_enabled, ai)
                  THEN ExecuteBuy(sym, investment, price, ai)
                  ELSE /\ ev' = [Event("buy_blocked", sym, 0, NoPos)
                                   EXCEPT !.ai = ai]
                       /\ UNCHANGED <<positions, positions_file, trades_history,
                                      trades_file>>

\* variant of PairBranch that sends every pair to the buy-side evaluation
C1_PairBranchAlwaysBuy(sym) ==
    "check_buy"

\* _process_pair: "if symbol in self.positions" picks the sell-side
\* evaluation, anything else the buy-side evaluation
PairBranch(sym) ==
    IF sym \in DOMAIN positions THEN "check_sell" ELSE "check_buy"

\* one iteration of "for pair_config in enabled_pairs"
ProcessPair ==
    /\ pc = "pairs"
    /\ todo # <<>>
    /\ IF ~is_running
       THEN \* "if not self.is_running: break"
            /\ todo' = <<>>
            /\ ev' = Event("break", "none", 0, NoPos)
            /\ UNCHANGED <<positions, positions_file, trades_history,
                           trades_file, sell, pc>>
       ELSE /\ todo' = Tail(todo)
            /\ \/ \* fetch_ticker raises, with an authentication error
                  \* ("Invalid key", "EAPI") or another one: logged, the
                  \* pair is skipped
                  /\ \E error \in {"auth", "other"} :
                       ev' = [Event("pair_error", Head(todo), 0, NoPos)
                                EXCEPT !.reason = error]
                  /\ UNCHANGED <<positions, positions_file, trades_history,
                                 trades_file, sell, pc>>
               \/ /\ PairBranch(Head(todo)) = "check_sell"
                  /\ CheckSellSignal(Head(todo))
               \/ /\ PairBranch(Head(todo)) = "check_buy"
                  /\ CheckBuySignal(Head(todo))
    /\ UNCHANGED <<is_running, ai_enabled, config, checkTodo, tick, bm, rc, kc, macd, th>>
    /\ stops' = StopsFor(positions, positions', stops)

\* the end of the pair loop: _check_positions returns at once when nothing
\* is tracked, otherwise it walks a snapshot of the tracked symbols
BeginCheckPositions ==
    /\ pc = "pairs"
    /\ todo = <<>>
    /\ pc' = "check"
    /\ checkTodo' = KeysOf(DOMAIN positions)
    /\ ev' = Event("check_begin", "none", 0, NoPos)
    /\ UNCHANGED <<is_running, ai_enabled, config, positions, positions_file,
                   trades_history, trades_file, todo, sell, tick, stops, bm, rc, kc, macd, th>>

\* variant of StopHit that compares with the percentage stop only
C3_StopHitIgnoresTrailing(pos, cur) ==
    cur * 1000 <= pos.entry_price * (1000 - StopLossPercentOf(pos))

\* "if current_price <= stop_loss_price" of _check_positions
StopHit(pos, cur) == cur * 1000 <= EffectiveStop(pos, cur)

\* variant of CheckPosition that looks at the take-profit first
C28_CheckPositionTakeProfitFirst ==
    /\ pc = "check"
    /\ checkTodo # <<>>
    /\ checkTodo' = Tail(checkTodo)
    /\ LET sym == Head(checkTodo) IN
       \/ \* the position is gone, or fetch_ticker failed three times:
          \* logged, the position is skipped
          /\ ev' = Event("check_error", sym, 0, NoPos)
          /\ UNCHANGED <<positions, positions_file, sell, pc, stops>>
       \/ /\ Tracked(sym)
          /\ \E current_price \in Prices :
               LET pos == positions[sym]
                   highest == HighestAfter(pos, current_price)
                   seen == [pos EXCEPT !.highest_price = highest]
                   stop == EffectiveStop(pos, current_price)
                   here == Event("checked", sym, current_price, pos)
               IN
               IF IsDust(pos.quantity, current_price)
               THEN \* dust: dropped from tracking, no order
                    /\ positions' = Remove(positions, sym)
                    /\ positions_file' = Saved(positions')
                    /\ ev' = Event("dust_removed", sym, current_price, pos)
                    /\ stops' = StopsFor(positions, positions', stops)
                    /\ UNCHANGED <<sell, pc>>
               ELSE /\ positions' = [positions EXCEPT ![sym] = seen]
                    /\ positions_file' = IF highest # pos.highest_price
                                         THEN Saved(positions') ELSE positions_file
                    /\ stops' = [stops EXCEPT ![sym] =
                                    [stop |-> stop,
                                     active |-> TrailingActive(pos, highest)]]
                    /\ IF PnlAtLeast(pos.entry_price, current_price,
                                     TakeProfitPercentOf(pos))
                       THEN /\ sell' = SellFrame(sym, current_price, "TAKE_PROFIT_AUTO", RetriesAuto, "check")
                            /\ pc' = "sell"
                            /\ ev' = [here EXCEPT !.kind = "sell_start",
                                                  !.reason = "TAKE_PROFIT_AUTO"]
                       ELSE IF StopHit(pos, current_price)
                       THEN /\ sell' = SellFrame(sym, current_price, "STOP_LOSS_AUTO", RetriesAuto, "check")
                            /\ pc' = "sell"
                            /\ ev' = [here EXCEPT !.kind = "sell_start",
                                                  !.reason = "STOP_LOSS_AUTO"]
                       ELSE /\ ev' = here
                            /\ UNCHANGED <<sell, pc>>
    /\ UNCHANGED <<is_running, ai_enabled, config, trades_history, trades_file,
                   todo, tick, bm, rc, kc, macd, th>>

\* one iteration of "for symbol in list(self.positions.keys())"
CheckPosition ==
    /\ pc = "check"
    /\ checkTodo # <<>>
    /\ checkTodo' = Tail(checkTodo)
    /\ LET sym == Head(checkTodo) IN
       \/ \* the position is gone, or fetch_ticker failed three times:
          \* logged, the position is skipped
          /\ ev' = Event("check_error", sym, 0, NoPos)
          /\ UNCHANGED <<positions, positions_file, sell, pc, stops>>
       \/ /\ Tracked(sym)
          /\ \E current_price \in Prices :
               LET pos == positions[sym]
                   highest == HighestAfter(pos, current_price)
                   seen == [pos EXCEPT !.highest_price = highest]
                   stop == EffectiveStop(pos, current_price)
                   here == Event("checked", sym, current_price, pos)
               IN
               IF IsDust(pos.quantity, current_price)
               THEN \* dust: dropped from tracking, no order
                    /\ positions' = Remove(positions, sym)
                    /\ positions_file' = Saved(positions')
                    /\ ev' = Event("dust_removed", sym, current_price, pos)
                    /\ stops' = StopsFor(positions, positions', stops)
                    /\ UNCHANGED <<sell, pc>>
               ELSE /\ positions' = [positions EXCEPT ![sym] = seen]
                    /\ positions_file' = IF highest # pos.highest_price
                                         THEN Saved(positions') ELSE positions_file
                    /\ stops' = [stops EXCEPT ![sym] =
                                    [stop |-> stop,
                                     active |-> TrailingActive(pos, highest)]]
                    /\ IF StopHit(pos, current_price)
                       THEN /\ sell' = SellFrame(sym, current_price, "STOP_LOSS_AUTO", RetriesAuto, "check")
                            /\ pc' = "sell"
                            /\ ev' = [here EXCEPT !.kind = "sell_start",
                                                  !.reason = "STOP_LOSS_AUTO"]
                       ELSE IF PnlAtLeast(pos.entry_price, current_price,
                                          TakeProfitPercentOf(pos))
                       THEN /\ sell' = SellFrame(sym, current_price, "TAKE_PROFIT_AUTO", RetriesAuto, "check")
                            /\ pc' = "sell"
                            /\ ev' = [here EXCEPT !.kind = "sell_start",
                                                  !.reason = "TAKE_PROFIT_AUTO"]
                       ELSE /\ ev' = here
                            /\ UNCHANGED <<sell, pc>>
    /\ UNCHANGED <<is_running, ai_enabled, config, trades_history, trades_file,
                   todo, tick, bm, rc, kc, macd, th>>

\* the tick is over: time.sleep(30), back to the loop test
EndTick ==
    /\ pc = "check"
    /\ checkTodo = <<>>
    /\ pc' = "loop"
    /\ ev' = Event("sleep", "none", 0, NoPos)
    /\ UNCHANGED <<is_running, ai_enabled, config, positions, positions_file,
                   trades_history, trades_file, todo, checkTodo, sell, tick,
                   stops, bm, rc, kc, macd, th>>

-----------------------------------------------------------------------------
(* TradingEngine._execute_sell_with_retry *)

\* free balances fetch_balance can report for a holding tracked at `tracked`
FreeQuantities(tracked) ==
    {0, 1, (tracked * 7) \div 10, tracked * 2}

\* variant of SellQuantity that sells what the engine tracks
C5_SellQuantityTracked(tracked_quantity, actual_quantity) ==
    tracked_quantity

\* the quantity to sell when the exchange reports a positive free balance:
\* the smaller of tracked and actual (actual when it is over 1% short)
SellQuantity(tracked_quantity, actual_quantity) ==
    IF actual_quantity * 100 < tracked_quantity * 99
    THEN actual_quantity
    ELSE Min(tracked_quantity, actual_quantity)

\* variant of WaitTime that doubles the wait with every attempt
C13_WaitDoubling(attempt) == BackoffSeconds * (2 ^ attempt)

\* wait_time = (attempt + 1) * 3
WaitTime(attempt) == (attempt + 1) * BackoffSeconds

\* the call returns to the loop it was made from
SellReturn ==
    /\ pc' = sell.ret
    /\ sell' = NoSell

SellEvent(kind, pos, quantity, free, order) ==
    [Event(kind, sell.symbol, sell.price, pos)
        EXCEPT !.side = IF order = "none" THEN "none" ELSE "SELL",
               !.order = order, !.qty = quantity, !.free = free,
               !.attempt = sell.attempt + 1,
               !.max_retries = sell.max_retries,
               !.orders = sell.orders + (IF order = "none" THEN 0 ELSE 1)]

\* variant of SellFailed that goes back to the loop after a failed attempt
\* and leaves the retry for later
C14_SellFailedReturnsEarly(pos, quantity, free, order) ==
    /\ UNCHANGED <<positions, positions_file, trades_history, trades_file>>
    /\ SellReturn
    /\ ev' = [SellEvent(IF sell.attempt < sell.max_retries - 1
                        THEN "sell_retry" ELSE "sell_exhausted",
                        pos, quantity, free, order)
                EXCEPT !.all_failed = TRUE]

\* the except branch of an attempt: back off and retry with a re-fetched
\* price, or, on the last attempt, log the critical failure and return
SellFailed(pos, quantity, free, order) ==
    LET accepted == sell.accepted \/ order = "accepted"
        appended == Len(trades_history) - sell.trades0
    IN
    /\ UNCHANGED <<positions, positions_file, trades_history, trades_file>>
    /\ IF sell.attempt < sell.max_retries - 1
       THEN \* time.sleep(wait_time), then the price is fetched again; when
            \* fetch_ticker raises the old price stays
            \E refetch \in {"ok", "raised"} :
              \E price \in IF refetch = "ok" THEN Prices ELSE {sell.price} :
                /\ sell' = [sell EXCEPT !.attempt = @ + 1, !.price = price,
                                        !.accepted = accepted,
                                        !.orders = @ + 1]
                /\ pc' = "sell"
                /\ ev' = [SellEvent("sell_retry", pos, quantity, free, order)
                            EXCEPT !.all_failed = ~accepted,
                                   !.appended = appended,
                                   !.wait = WaitTime(sell.attempt),
                                   !.refetch = refetch]
       ELSE /\ SellReturn
            /\ ev' = [SellEvent("sell_exhausted", pos, quantity, free, order)
                        EXCEPT !.all_failed = ~accepted, !.appended = appended,
                               !.critical = 3, !.alerts = 0]

\* the order went through and the bookkeeping did not raise: the position
\* is dropped, the SELL trade appended, both files saved, the alert sent
SellFilled(pos, quantity, free) ==
    /\ Len(trades_history) < MaxTrades
    /\ positions' = Remove(positions, sell.symbol)
    /\ trades_history' = Append(trades_history,
                                Trade(sell.symbol, "SELL"))
    /\ positions_file' = Saved(positions')
    /\ trades_file' = Saved(trades_history')
    /\ SellReturn
    /\ ev' = [SellEvent("sell_filled", pos, quantity, free, "accepted")
                EXCEPT !.alerts = 1,
                       !.appended = Len(trades_history') - sell.trades0]

\* variant of SellSubmit that applies the dust check to every quantity,
\* the tracked one used after a failed balance fetch included
C33_SubmitChecksDust(pos, quantity, free) ==
    IF IsDust(quantity, sell.price)
    THEN /\ positions' = Remove(positions, sell.symbol)
         /\ positions_file' = Saved(positions')
         /\ SellReturn
         /\ ev' = SellEvent("sell_dust", pos, quantity, free, "none")
         /\ UNCHANGED <<trades_history, trades_file>>
    ELSE \/ SellFailed(pos, quantity, free, "raised")
         \/ /\ pos.trade_id
            /\ SellFailed(pos, quantity, free, "accepted")
         \/ SellFilled(pos, quantity, free)

\* create_market_sell_order and what follows it
SellSubmit(pos, quantity, free) ==
    \/ \* the order raises, or its response carries no id
       SellFailed(pos, quantity, free, "raised")
    \/ \* accepted, but record_exit / record_trade_outcome raises
       /\ pos.trade_id
       /\ SellFailed(pos, quantity, free, "accepted")
    \/ SellFilled(pos, quantity, free)

\* variant of SellDropped that sells the tracked quantity all the same
C7_DroppedStillSells(kind, pos, quantity, free) ==
    SellSubmit(pos, pos.quantity, free)

\* the position dropped from tracking without an order (dust or no balance)
SellDropped(kind, pos, quantity, free) ==
    /\ positions' = Remove(positions, sell.symbol)
    /\ positions_file' = Saved(positions')
    /\ SellReturn
    /\ ev' = SellEvent(kind, pos, quantity, free, "none")
    /\ UNCHANGED <<trades_history, trades_file>>

\* variant of SellAttempt that gives the sequence up once stop() was called
C15_SellAttemptHonoursStop ==
    /\ pc = "sell"
    /\ IF ~is_running
       THEN /\ SellReturn
            /\ ev' = SellEvent("sell_cancelled", NoPos, 0, -1, "none")
            /\ UNCHANGED <<positions, positions_file, trades_history,
                           trades_file>>
       ELSE SellSubmit(positions[sell.symbol], positions[sell.symbol].quantity, -1)
    /\ stops' = StopsFor(positions, positions', stops)
    /\ UNCHANGED <<is_running, ai_enabled, config, todo, checkTodo, tick, bm, rc, kc, macd, th>>

\* one iteration of "for attempt in range(max_retries)"
SellAttempt ==
    /\ pc = "sell"
    /\ IF ~Tracked(sell.symbol)
       THEN \* "Position already closed, skipping sell"
            /\ SellReturn
            /\ ev' = SellEvent("sell_gone", NoPos, 0, -1, "none")
            /\ UNCHANGED <<positions, positions_file, trades_history, trades_file>>
       ELSE LET pos == positions[sell.symbol]
                tracked_quantity == pos.quantity
            IN
            \/ \* fetch_balance raises: sell the tracked quantity
               SellSubmit(pos, tracked_quantity, -1)
            \/ \E actual_quantity \in FreeQuantities(tracked_quantity) :
                 IF actual_quantity > 0
                 THEN LET quantity == SellQuantity(tracked_quantity, actual_quantity) IN
                      IF IsDust(quantity, sell.price)
                      THEN SellDropped("sell_dust", pos, quantity, actual_quantity)
                      ELSE SellSubmit(pos, quantity, actual_quantity)
                 ELSE SellDropped("sell_zero", pos, 0, actual_quantity)
    /\ stops' = StopsFor(positions, positions', stops)
    /\ UNCHANGED <<is_running, ai_enabled, config, todo, checkTodo, tick, bm, rc, kc, macd, th>>

-----------------------------------------------------------------------------

EngineNext ==
    \/ Start
    \/ Stop
    \/ LoopTop
    \/ ProcessPair
    \/ BeginCheckPositions
    \/ CheckPosition
    \/ SellAttempt
    \/ EndTick

Spec == Init /\ [][EngineNext]_vars

-----------------------------------------------------------------------------
(* BotManager, src/bot_manager.py.  Prices in tenths of a dollar, order    *)
(* amounts in whole units, P&L and exposure in tenths of a dollar.         *)

STOP_LOSS_PERCENT == 20            \* config.STOP_LOSS_PERCENT = 2.0
TAKE_PROFIT_PERCENT == 30          \* config.TAKE_PROFIT_PERCENT = 3.0
MAX_DAILY_LOSS_USD == 5000         \* config.MAX_DAILY_LOSS_USD = 500.0
MAX_TOTAL_EXPOSURE_USD == 100000   \* config.MAX_TOTAL_EXPOSURE_USD = 10000.0
max_positions == 5                 \* start(..., max_positions=5)
MAX_POSITION_SIZE_USD == 25000     \* config.MAX_POSITION_SIZE_USD = 2500.0
MIN_ORDER_SIZE_USD == 500          \* config.MIN_ORDER_SIZE_USD = 50.0

\* prices the ticker reports, prices orders fill at, order amounts
BotPrices == {800, 1000, 1040}
BotFillPrices == {1000}
BotAmounts == {25, 30}

\* self.trading_pairs, in order
trading_pairs == SymOrder

Logged(kind, sym) == [kind |-> kind, sym |-> sym]

\* _update_position: a new position for an untracked symbol, a BUY added
\* at the average price, anything else taken off and the position deleted
\* when nothing is left
UpdatePosition(ps, sym, side, amount, price) ==
    IF sym \notin DOMAIN ps
    THEN Put(ps, sym, [side |-> IF side = "BUY" THEN "long" ELSE "short",
                       quantity |-> amount, entry_price |-> price,
                       current_price |-> price, unrealized_pnl |-> 0])
    ELSE IF side = "BUY"
    THEN LET new_quantity == ps[sym].quantity + amount IN
         [ps EXCEPT ![sym].entry_price =
                        (ps[sym].entry_price * ps[sym].quantity + price * amount)
                            \div new_quantity,
                    ![sym].quantity = new_quantity]
    ELSE IF ps[sym].quantity - amount <= 0
    THEN Remove(ps, sym)
    ELSE [ps EXCEPT ![sym].quantity = @ - amount]

\* unrealized_pnl of _update_positions
UnrealizedPnl(pos, current_price) ==
    IF pos.side = "long"
    THEN (current_price - pos.entry_price) * pos.quantity
    ELSE (pos.entry_price - current_price) * pos.quantity

\* _check_position_exits: the reason to close, if any
ExitReason(pos) ==
    LET cost == pos.entry_price * pos.quantity IN
    IF pos.unrealized_pnl * 1000 <= -STOP_LOSS_PERCENT * cost THEN "stop_loss"
    ELSE IF pos.unrealized_pnl * 1000 >= TAKE_PROFIT_PERCENT * cost
    THEN "take_profit"
    ELSE "none"

\* total_exposure of _check_risk_limits
RECURSIVE ExposureOf(_, _)
ExposureOf(ps, syms) ==
    IF syms = {} THEN 0
    ELSE LET s == CHOOSE x \in syms : TRUE
         IN ps[s].quantity * ps[s].current_price + ExposureOf(ps, syms \ {s})

TotalExposure(ps) == ExposureOf(ps, DOMAIN ps)

\* RiskManager.can_open_position: the value of the order is within the
\* minimum order size and the maximum position size (the exposure the
\* manager compares with is the one it loaded at start)
can_open_position(size, price) ==
    /\ size * price >= MIN_ORDER_SIZE_USD
    /\ size * price <= MAX_POSITION_SIZE_USD

BotStep(b) ==
    /\ bm' = b
    /\ UNCHANGED <<engineVars, rc, kc, macd, th>>

\* start(): refuse when running, else set is_running and start the loop
BotStart ==
    /\ bm.pc = "off"
    /\ ~bm.is_running
    /\ BotStep([bm EXCEPT !.is_running = TRUE, !.pc = "loop"])

\* stop() with its default arguments: clear is_running
BotStop ==
    /\ bm.is_running
    /\ BotStep([bm EXCEPT !.is_running = FALSE])

\* pause() / resume()
BotPause ==
    /\ bm.is_running
    /\ ~bm.pause_trading
    /\ BotStep([bm EXCEPT !.pause_trading = TRUE])

BotResume ==
    /\ bm.is_running
    /\ bm.pause_trading
    /\ BotStep([bm EXCEPT !.pause_trading = FALSE, !.risk_paused = FALSE])

\* "while self.is_running": leave, sleep through a paused iteration, or
\* begin an iteration with _run_strategies
BotLoopTop ==
    /\ bm.pc = "loop"
    /\ IF ~bm.is_running
       THEN BotStep([bm EXCEPT !.pc = "done"])
       ELSE /\ bm.n < MaxBotTicks
            /\ \E drawdown_exceeded \in BOOLEAN :
                 \* what risk_manager.calculate_drawdown() would report
                 \* during this iteration
                 IF bm.pause_trading
                 THEN BotStep([bm EXCEPT !.n = @ + 1, !.log = <<>>,
                                         !.startPos = DOMAIN bm.positions,
                                         !.drawdown_exceeded = drawdown_exceeded])
                 ELSE BotStep([bm EXCEPT !.n = @ + 1, !.log = <<>>,
                                         !.startPos = DOMAIN bm.positions,
                                         !.drawdown_exceeded = drawdown_exceeded,
                                         !.pc = "strategies",
                                         !.todo = trading_pairs])

\* one iteration of "for symbol in self.trading_pairs" of _run_strategies:
\* the strategy analyses the pair whether or not a position is open in it,
\* and a validated signal is executed at once
BotRunStrategy ==
    /\ bm.pc = "strategies"
    /\ bm.todo # <<>>
    /\ LET sym == Head(bm.todo)
           rest == [bm EXCEPT !.todo = Tail(bm.todo)]
           analysed == [rest EXCEPT !.log = Append(@, Logged("entry_eval", sym))]
       IN
       IF Cardinality(DOMAIN bm.positions) >= max_positions
       THEN \* "break"
            BotStep([bm EXCEPT !.todo = <<>>])
       ELSE \/ \* no market data: "continue"
               BotStep(rest)
            \/ \* get_ohlcv or the strategy raises: the except around the
               \* whole loop logs it and _run_strategies returns
               BotStep([bm EXCEPT !.todo = <<>>,
                                  !.log = Append(@, Logged("error", sym))])
            \/ \* no signal, a signal the risk manager rejects, a position
               \* that cannot be opened, or an order that is not placed
               BotStep(analysed)
            \/ \* the signal is executed
               \E side \in {"BUY", "SELL"}, amount \in BotAmounts,
                  price \in BotFillPrices :
                 /\ can_open_position(amount, price)
                 /\ BotStep([analysed EXCEPT
                            !.positions = UpdatePosition(bm.positions, sym, side,
                                                         amount, price),
                            !.log = Append(@, Logged(side, sym))])

\* _check_risk_limits, after the strategies: pause on the daily loss, the
\* drawdown or the exposure limit; then _update_positions starts iterating
\* self.positions
BotCheckRiskLimits ==
    /\ bm.pc = "strategies"
    /\ bm.todo = <<>>
    /\ LET breach == \/ bm.total_pnl <= -MAX_DAILY_LOSS_USD
                     \/ bm.drawdown_exceeded
                     \/ TotalExposure(bm.positions) > MAX_TOTAL_EXPOSURE_USD
       IN BotStep([bm EXCEPT !.pause_trading = @ \/ breach,
                             !.risk_paused = @ \/ breach,
                             !.drawdown_exceeded = FALSE,
                             !.pc = "update",
                             !.todo = KeysOf(DOMAIN bm.positions)])

\* one iteration of "for symbol, position in self.positions.items()" of
\* _update_positions; closing a position deletes it from the dict being
\* iterated, so the next step of the iteration raises RuntimeError and
\* the positions after it are not looked at
BotUpdatePosition ==
    /\ bm.pc = "update"
    /\ bm.todo # <<>>
    /\ LET sym == Head(bm.todo)
           rest == [bm EXCEPT !.todo = Tail(bm.todo)]
       IN
       \/ \* no ticker
          BotStep(rest)
       \/ \E current_price \in BotPrices, orderOk \in BOOLEAN :
            LET pos == [bm.positions[sym] EXCEPT
                           !.current_price = current_price,
                           !.unrealized_pnl =
                               UnrealizedPnl(bm.positions[sym], current_price)]
                seen == [rest EXCEPT
                           !.positions[sym] = pos,
                           !.log = Append(@, Logged("exit_eval", sym))]
            IN
            IF ExitReason(pos) = "none" \/ ~orderOk
            THEN BotStep(seen)
            ELSE BotStep([seen EXCEPT
                            !.positions = Remove(bm.positions, sym),
                            !.total_pnl = @ + pos.unrealized_pnl,
                            !.log = Append(@, Logged(ExitReason(pos), sym)),
                            !.todo = <<>>])

\* _process_signals does nothing; time.sleep(self.update_interval)
BotEndTick ==
    /\ bm.pc = "update"
    /\ bm.todo = <<>>
    /\ BotStep([bm EXCEPT !.pc = "loop"])

BotNext ==
    \/ BotStart
    \/ BotStop
    \/ BotPause
    \/ BotResume
    \/ BotLoopTop
    \/ BotRunStrategy
    \/ BotCheckRiskLimits
    \/ BotUpdatePosition
    \/ BotEndTick

SpecBot == Init /\ [][BotNext]_vars

-----------------------------------------------------------------------------
(* RiskCalculator, src/risk_calculator.py.  Money in dollars, drawdown in  *)
(* 1/10000 (2000 = 20%).                                                   *)

max_daily_loss == 500          \* config.get('max_daily_loss_usd', 500)
MaxDrawdown == 2000            \* "self.current_drawdown >= 0.20"
MaxConsecutiveLosses == 5      \* "self.consecutive_losses >= 5"

\* balances and trade results handed to the calculator
RiskBalances == {0, 800, 900, 1000}
RiskPnls == {-250, 300}

Abs(x) == IF x < 0 THEN -x ELSE x

\* variant of should_stop_trading with strict comparisons
C10_ShouldStopStrict(r) ==
    IF Abs(r.daily_pnl) > max_daily_loss
    THEN [stop |-> TRUE, reason |-> "Daily loss limit reached"]
    ELSE IF r.current_drawdown > MaxDrawdown
    THEN [stop |-> TRUE, reason |-> "Maximum drawdown reached"]
    ELSE IF r.consecutive_losses > MaxConsecutiveLosses
    THEN [stop |-> TRUE, reason |-> "Too many consecutive losses"]
    ELSE [stop |-> FALSE, reason |-> ""]

\* should_stop_trading: (True, reason) on the first limit that is met, in
\* the order daily loss, drawdown, consecutive losses; else (False, "")
should_stop_trading(r) ==
    IF Abs(r.daily_pnl) >= max_daily_loss
    THEN [stop |-> TRUE, reason |-> "Daily loss limit reached"]
    ELSE IF r.current_drawdown >= MaxDrawdown
    THEN [stop |-> TRUE, reason |-> "Maximum drawdown reached"]
    ELSE IF r.consecutive_losses >= MaxConsecutiveLosses
    THEN [stop |-> TRUE, reason |-> "Too many consecutive losses"]
    ELSE [stop |-> FALSE, reason |-> ""]

\* a call that changes the calculator: counted, and the last answer of
\* should_stop_trading no longer describes the state
RiskStep(r) ==
    /\ rc.ops < MaxRiskOps
    /\ rc' = [r EXCEPT !.ops = rc.ops + 1, !.answer = NotAsked,
                        !.sized = NoSize]
    /\ UNCHANGED <<engineVars, bm, kc, macd, th>>

\* variant of update_drawdown that takes every balance reported as the peak
C38_UpdateDrawdownFollowsBalance ==
    \E current_balance \in RiskBalances :
      RiskStep([rc EXCEPT !.peak_balance = current_balance,
                          !.current_drawdown = 0, !.error = "none",
                          !.last_balance = current_balance])

\* update_drawdown: a new peak clears the drawdown, anything else sets it
\* to the fall from the peak; with no peak yet the division raises
UpdateDrawdown ==
    \E current_balance \in RiskBalances :
      IF current_balance > rc.peak_balance
      THEN RiskStep([rc EXCEPT !.peak_balance = current_balance,
                               !.current_drawdown = 0, !.error = "none",
                               !.last_balance = current_balance])
      ELSE IF rc.peak_balance = 0
      THEN RiskStep([rc EXCEPT !.error = "ZeroDivisionError",
                               !.last_balance = current_balance])
      ELSE RiskStep([rc EXCEPT !.current_drawdown =
                                  ((rc.peak_balance - current_balance) * 10000)
                                      \div rc.peak_balance,
                               !.error = "none",
                               !.last_balance = current_balance])

\* RiskManager.calculate_drawdown, given the peak it holds and the total
\* balance it reads: the peak and the drawdown (1/10000) it leaves
calculate_drawdown(peak_balance, current_balance) ==
    LET peak == IF current_balance > peak_balance THEN current_balance
                ELSE peak_balance
    IN [peak_balance |-> peak,
        current_drawdown |-> IF peak > 0
                             THEN ((peak - current_balance) * 10000) \div peak
                             ELSE 0]

\* update_daily_pnl
UpdateDailyPnl ==
    \E pnl \in RiskPnls :
      RiskStep([rc EXCEPT !.daily_pnl = @ + pnl, !.error = "none"])

\* reset_daily_pnl
ResetDailyPnl ==
    RiskStep([rc EXCEPT !.daily_pnl = 0, !.error = "none"])

\* update_streak
UpdateStreak ==
    \E was_winner \in BOOLEAN :
      IF was_winner
      THEN RiskStep([rc EXCEPT !.consecutive_wins = @ + 1,
                               !.consecutive_losses = 0, !.error = "none"])
      ELSE RiskStep([rc EXCEPT !.consecutive_losses = @ + 1,
                               !.consecutive_wins = 0, !.error = "none"])

\* a call of should_stop_trading; the state is only read
ShouldStopTrading ==
    /\ rc' = [rc EXCEPT !.answer = should_stop_trading(rc), !.error = "none"]
    /\ UNCHANGED <<engineVars, bm, kc, macd, th>>

\* Position sizing.  Balances and exposure in dollars, sizes in cents,
\* confidence and win rate in percent, the confidence, volatility and
\* drawdown multipliers in tenths, the Kelly multiplier in hundredths.

max_position_size == 250000    \* config.get('max_position_size_usd', 2500)
min_position_size == 5000      \* config.get('min_position_size_usd', 50)
max_total_exposure == 10000    \* config.get('max_total_exposure_usd', 10000)
base_risk_per_trade == 2       \* config.get('base_risk_per_trade', 0.02)
DefaultRiskReward == 20        \* risk_reward_ratio: float = 2.0
NoWinRate == -1                \* strategy_win_rate = None

\* arguments handed to calculate_position_size
SizeBalances == {1000, 60000}
SizeConfidences == {40, 55, 95}
SizeRegimes == {"LOW_VOLATILITY", "TRENDING"}
SizeExposures == {0, 9980, 10500}
SizeWinRates == {NoWinRate, 60}

\* _get_confidence_multiplier
get_confidence_multiplier(confidence) ==
    IF confidence < 50 THEN 0
    ELSE IF confidence < 60 THEN 5
    ELSE IF confidence < 70 THEN 8
    ELSE IF confidence < 80 THEN 10
    ELSE IF confidence < 90 THEN 13
    ELSE IF confidence < 95 THEN 16
    ELSE 20

\* _get_volatility_multiplier: volatility_map.get(regime, 0.8)
get_volatility_multiplier(regime) ==
    IF regime = "LOW_VOLATILITY" THEN 12
    ELSE IF regime = "MEDIUM_VOLATILITY" THEN 10
    ELSE IF regime = "HIGH_VOLATILITY" THEN 6
    ELSE 8

\* _get_drawdown_multiplier
get_drawdown_multiplier(r) ==
    IF r.current_drawdown < 500 THEN 10
    ELSE IF r.current_drawdown < 1000 THEN 9
    ELSE IF r.current_drawdown < 1500 THEN 7
    ELSE IF r.current_drawdown < 2000 THEN 5
    ELSE 3

\* _calculate_kelly_multiplier: 1 + a quarter of the Kelly fraction, kept
\* between 0.5 and 1.5
calculate_kelly_multiplier(win_rate, risk_reward_ratio) ==
    IF win_rate <= 0 \/ win_rate >= 100 THEN 100
    ELSE LET fractional_kelly ==
                 (25 * (win_rate * risk_reward_ratio
                        - 10 * (100 - win_rate))) \div (100 * risk_reward_ratio)
         IN Max(50, Min(150, 100 + fractional_kelly))

\* calculate_position_size: 2% of the balance, times the multipliers,
\* capped by the remaining exposure, then forced between the minimum and
\* the maximum position size
calculate_position_size(r, account_balance, signal_confidence, volatility_regime, current_exposure, strategy_win_rate) ==
    LET base_size == account_balance * base_risk_per_trade
        by_confidence ==
            (base_size * get_confidence_multiplier(signal_confidence)) \div 10
        by_volatility ==
            (by_confidence * get_volatility_multiplier(volatility_regime)) \div 10
        by_drawdown == (by_volatility * get_drawdown_multiplier(r)) \div 10
        by_kelly ==
            IF strategy_win_rate = NoWinRate THEN by_drawdown
            ELSE (by_drawdown * calculate_kelly_multiplier(strategy_win_rate,
                                                           DefaultRiskReward))
                     \div 100
        remaining_exposure == (max_total_exposure - current_exposure) * 100
    IN Max(min_position_size,
           Min(Min(by_kelly, remaining_exposure), max_position_size))

\* variant of the call that also tracks the balance it is given, as
\* update_drawdown does
C12_CalculateTracksBalance ==
    \E account_balance \in SizeBalances, signal_confidence \in SizeConfidences,
       volatility_regime \in SizeRegimes, current_exposure \in SizeExposures,
       strategy_win_rate \in SizeWinRates :
      /\ ~rc.sized.called
      /\ rc' = [rc EXCEPT
                  !.peak_balance = Max(@, account_balance),
                  !.current_drawdown =
                      IF account_balance >= rc.peak_balance THEN 0
                      ELSE ((rc.peak_balance - account_balance) * 10000)
                               \div rc.peak_balance,
                  !.sized =
                    [called |-> TRUE, account_balance |-> account_balance,
                     signal_confidence |-> signal_confidence,
                     volatility_regime |-> volatility_regime,
                     current_exposure |-> current_exposure,
                     strategy_win_rate |-> strategy_win_rate,
                     size |-> calculate_position_size(rc, account_balance,
                                  signal_confidence, volatility_regime,
                                  current_exposure, strategy_win_rate)]]
      /\ UNCHANGED <<engineVars, bm, kc, macd, th>>

\* a call of calculate_position_size, the first since the calculator last
\* changed: the calculator is only read
CalculatePositionSize ==
    \E account_balance \in SizeBalances, signal_confidence \in SizeConfidences,
       volatility_regime \in SizeRegimes, current_exposure \in SizeExposures,
       strategy_win_rate \in SizeWinRates :
      /\ ~rc.sized.called
      /\ rc' = [rc EXCEPT
                  !.sized =
                    [called |-> TRUE, account_balance |-> account_balance,
                     signal_confidence |-> signal_confidence,
                     volatility_regime |-> volatility_regime,
                     current_exposure |-> current_exposure,
                     strategy_win_rate |-> strategy_win_rate,
                     size |-> calculate_position_size(rc, account_balance,
                                  signal_confidence, volatility_regime,
                                  current_exposure, strategy_win_rate)]]
      /\ UNCHANGED <<engineVars, bm, kc, macd, th>>

RiskNext ==
    \/ UpdateDrawdown
    \/ UpdateDailyPnl
    \/ ResetDailyPnl
    \/ UpdateStreak
    \/ ShouldStopTrading
    \/ CalculatePositionSize

SpecRisk == Init /\ [][RiskNext]_vars

-----------------------------------------------------------------------------
(* KrakenClient._make_request, src/kraken_client.py, called by several      *)
(* threads on one client.  Nothing in it is locked, so the steps of two    *)
(* callers interleave at every read and write of last_request_time.        *)

ClientStep(k) ==
    /\ kc' = k
    /\ UNCHANGED <<engineVars, bm, rc, macd, th>>

\* the clock moves on: by a millisecond, by the interval, or to the time
\* a sleeping caller asked to be woken at
ClientAdvance ==
    /\ kc.advances < MaxAdvances
    /\ \E t \in {kc.now + 1, kc.now + min_request_interval}
                 \cup {kc.thread[c].wake : c \in Callers} :
         /\ t > kc.now
         /\ ClientStep([kc EXCEPT !.now = t, !.advances = @ + 1])

\* "elapsed = time.time() - self.last_request_time": the caller goes on
\* when the interval has passed, else it sleeps for the rest of it
ClientGate(c) ==
    /\ kc.thread[c].pc = "idle"
    /\ kc.calls[c] < MaxCalls
    /\ \E is_private \in BOOLEAN :
         LET elapsed == kc.now - kc.last_request_time IN
         ClientStep([kc EXCEPT
                       !.calls[c] = @ + 1,
                       !.thread[c] =
                          IF elapsed < min_request_interval
                          THEN [pc |-> "sleep", is_private |-> is_private,
                                wake |-> kc.now + (min_request_interval - elapsed)]
                          ELSE [pc |-> "ready", is_private |-> is_private,
                                wake |-> kc.now]])

\* data['nonce'] = int(time.time() * 1000)
Nonce(now) == now

\* the request goes out (session.post with the nonce and the signature, or
\* session.get) once the sleep, if any, is over
ClientSend(c) ==
    /\ kc.thread[c].pc \in {"sleep", "ready"}
    /\ kc.now >= kc.thread[c].wake
    /\ ClientStep([kc EXCEPT
                     !.thread[c].pc = "inflight",
                     !.sends = @ + 1,
                     !.sent_at = kc.now,
                     !.signed = IF kc.thread[c].is_private THEN @ + 1 ELSE @,
                     !.last_nonce = IF kc.thread[c].is_private
                                    THEN Nonce(kc.now) ELSE @])

\* the response arrives and last_request_time is set, or the request
\* raises (a timeout, a connection error) and it is not
ClientRespond(c) ==
    /\ kc.thread[c].pc = "inflight"
    /\ \E answered \in BOOLEAN :
         ClientStep([kc EXCEPT
                       !.thread[c].pc = "idle",
                       !.last_request_time =
                           IF answered THEN kc.now ELSE @])

ClientNext ==
    \/ ClientAdvance
    \/ \E c \in Callers : ClientGate(c)
    \/ \E c \in Callers : ClientSend(c)
    \/ \E c \in Callers : ClientRespond(c)

SpecClient == Init /\ [][ClientNext]_vars

-----------------------------------------------------------------------------
(* KrakenClient.place_order in paper-trading mode.  Prices and money in    *)
(* tenths of a dollar, amounts in whole units of the base asset.           *)

\* calls of place_order explored
MaxPaperOrders == 3

\* what the callers ask for
PaperSides == {"BUY", "SELL"}
PaperTypes == {"MARKET", "LIMIT"}
PaperAmounts == {0, 1, 2}
PaperPrices == {1000, 40000}

\* _place_paper_order: the order it returns, 'filled' for every market
\* order and 'open' for anything else
paper_order(side, order_type, amount, price) ==
    [status |-> IF order_type = "MARKET" THEN "filled" ELSE "open",
     side |-> side, type |-> order_type, amount |-> amount, price |-> price,
     before |-> kc.paper_balance]

\* _place_paper_order: the ledger after the order; a market order is
\* booked when the ledger covers it and leaves the ledger alone otherwise
paper_balance_after(ledger, side, order_type, amount, price) ==
    LET cost == amount * price IN
    IF order_type # "MARKET" THEN ledger
    ELSE IF side = "BUY"
    THEN IF ledger.USD >= cost
         THEN PaperLedger(ledger.USD - cost, ledger.base + amount)
         ELSE ledger
    ELSE IF ledger.base >= amount
         THEN PaperLedger(ledger.USD + cost, ledger.base - amount)
         ELSE ledger

\* place_order with paper_trading set: an order below the minimum order
\* size raises; anything else goes to _place_paper_order
PlaceOrder ==
    /\ kc.paper_orders < MaxPaperOrders
    /\ \E side \in PaperSides, order_type \in PaperTypes,
          amount \in PaperAmounts, price \in PaperPrices :
         IF amount * price < MIN_ORDER_SIZE_USD
         THEN ClientStep([kc EXCEPT
                 !.order = [paper_order(side, order_type, amount, price)
                              EXCEPT !.status = "raised"]])
         ELSE ClientStep([kc EXCEPT
                 !.paper_balance = paper_balance_after(kc.paper_balance, side,
                                       order_type, amount, price),
                 !.paper_orders = @ + 1,
                 !.order = paper_order(side, order_type, amount, price)])

PaperNext == PlaceOrder

SpecPaper == Init /\ [][PaperNext]_vars

-----------------------------------------------------------------------------
(* TradingEngine._check_macd_crossover; time in minutes *)

\* calls of _check_macd_crossover and clock advances explored
MaxMacdCalls == 4
MaxMacdAdvances == 3

\* max_age_minutes=30, the default and the value the strategy passes
max_age_minutes == 30

\* minutes that pass between two calls
MacdElapsed == {10, 31}

\* values of the MACD line and of the signal line
MacdValues == {-1, 0, 1}

\* every step of this part leaves the other objects alone
MacdStep(m) ==
    /\ macd' = m
    /\ UNCHANGED <<engineVars, bm, rc, kc, th>>

\* datetime.now() moves on between two ticks
MacdAdvance ==
    /\ macd.advances < MaxMacdAdvances
    /\ \E d \in MacdElapsed :
         MacdStep([macd EXCEPT !.now = @ + d, !.advances = @ + 1,
                               !.last = NoMacdCall])

\* the value _check_macd_crossover returns
check_macd_crossover_result(m, symbol, macd_line, signal_line) ==
    IF macd_line > signal_line
    THEN IF m.macd_crossovers[symbol] = NoCrossover
         THEN TRUE
         ELSE m.now - m.macd_crossovers[symbol] <= max_age_minutes
    ELSE FALSE

\* the crossover _check_macd_crossover leaves recorded for the symbol
check_macd_crossover_record(m, symbol, macd_line, signal_line) ==
    IF macd_line > signal_line
    THEN IF m.macd_crossovers[symbol] = NoCrossover
         THEN m.now
         ELSE IF m.now - m.macd_crossovers[symbol] <= max_age_minutes
              THEN m.macd_crossovers[symbol]
              ELSE NoCrossover
    ELSE NoCrossover

\* _check_macd_crossover(symbol, macd_line, signal_line)
CheckMacdCrossover ==
    /\ macd.calls < MaxMacdCalls
    /\ \E symbol \in Symbols, macd_line \in MacdValues, signal_line \in MacdValues :
         LET result == check_macd_crossover_result(macd, symbol, macd_line, signal_line)
             record == check_macd_crossover_record(macd, symbol, macd_line, signal_line)
             expired == /\ macd_line > signal_line
                        /\ macd.macd_crossovers[symbol] # NoCrossover
                        /\ ~result
         IN MacdStep([macd EXCEPT
                !.macd_crossovers[symbol] = record,
                !.stale[symbol] = IF macd_line > signal_line
                                  THEN @ \/ expired ELSE FALSE,
                !.last = [called |-> TRUE, symbol |-> symbol,
                          macd_line |-> macd_line,
                          signal_line |-> signal_line, result |-> result],
                !.calls = @ + 1])

MacdNext ==
    \/ MacdAdvance
    \/ CheckMacdCrossover

SpecMacd == Init /\ [][MacdNext]_vars

-----------------------------------------------------------------------------
(* TradingEngine.start, stop and _trading_loop as threads *)

\* every step of this part leaves the other objects alone
ThreadsStep(t) ==
    /\ th' = t
    /\ UNCHANGED <<engineVars, bm, rc, kc, macd>>

\* start(): refused when is_running or when the API test fails; otherwise
\* is_running is set and a new thread is created and started, whatever the
\* thread of an earlier start() is doing
ThreadsStart ==
    /\ th.ctl = "idle"
    /\ \E apiOk \in BOOLEAN :
         IF th.is_running \/ ~apiOk
         THEN /\ th.last # "refused"
              /\ ThreadsStep([th EXCEPT !.last = "refused"])
         ELSE /\ th.started < MaxLoopStarts
              /\ ThreadsStep([th EXCEPT
                     !.is_running = TRUE,
                     !.started = @ + 1,
                     !.trading_thread = th.started + 1,
                     !.pc[th.started + 1] = "loop",
                     !.last = "started"])

\* stop(): clear is_running, then join the thread of the last start()
ThreadsStop ==
    /\ th.ctl = "idle"
    /\ th.last # "stopped" \/ th.is_running
    /\ ThreadsStep([th EXCEPT
           !.is_running = FALSE,
           !.ctl = IF th.trading_thread # NoThread THEN "joining" ELSE "idle",
           !.last = IF th.trading_thread # NoThread THEN "joining" ELSE "stopped"])

\* join(timeout=5) returns: the thread has ended, or 5 seconds have passed
\* while it was inside a tick or in the sleep between two ticks
ThreadsJoin ==
    /\ th.ctl = "joining"
    /\ th.pc[th.trading_thread] \in {"exited", "tick", "sleep"}
    /\ ThreadsStep([th EXCEPT !.ctl = "idle", !.last = "stopped"])

\* "while self.is_running": begin a tick or leave the loop
LoopTest(t) ==
    /\ th.pc[t] = "loop"
    /\ IF th.is_running
       THEN /\ th.ticks[t] < MaxLoopTicks
            /\ ThreadsStep([th EXCEPT !.pc[t] = "tick", !.ticks[t] = @ + 1])
       ELSE ThreadsStep([th EXCEPT !.pc[t] = "exited"])

\* the pairs are processed and the positions checked, then time.sleep(30)
LoopTick(t) ==
    /\ th.pc[t] = "tick"
    /\ ThreadsStep([th EXCEPT !.pc[t] = "sleep"])

\* the sleep ends
LoopWake(t) ==
    /\ th.pc[t] = "sleep"
    /\ ThreadsStep([th EXCEPT !.pc[t] = "loop"])

ThreadsNext ==
    \/ ThreadsStart
    \/ ThreadsStop
    \/ ThreadsJoin
    \/ \E t \in LoopThreads : LoopTest(t)
    \/ \E t \in LoopThreads : LoopTick(t)
    \/ \E t \in LoopThreads : LoopWake(t)

SpecThreads == Init /\ [][ThreadsNext]_vars

-----------------------------------------------------------------------------
(* Properties of the TradingEngine *)

\* C1: a BUY order is never submitted for a symbol that has a tracked
\* position, and a filled BUY adds exactly that symbol to the tracked
\* positions (it never replaces a position that is already open).
C1_NoBuyWhileTracked ==
    [][ev'.side = "BUY" =>
          /\ ev'.sym \notin DOMAIN positions
          /\ ev'.order = "accepted" =>
                /\ DOMAIN positions' = (DOMAIN positions) \cup {ev'.sym}
                /\ \A s \in DOMAIN positions : positions'[s] = positions[s]]_vars

\* C1 witness: a BUY filled for a symbol that was sold earlier in the run
C1_Witness ==
    /\ ev.kind = "buy_filled"
    /\ ev.sym \in DOMAIN positions
    /\ trades_history = <<Trade(ev.sym, "SELL"), Trade(ev.sym, "BUY")>>

\* C2: every BUY order follows, in the same evaluation, an AI ensemble
\* result that says BUY with a confidence of at least ai_min_confidence,
\* with the AI enabled; a consultation that is disabled, raises, or comes
\* back as the fallback never leads to a BUY.
C2_BuyOnlyOnAIBuy ==
    ev.side = "BUY" =>
        /\ ai_enabled
        /\ ev.ai.status = "ok"
        /\ ev.ai.signal = "BUY"
        /\ ev.ai.confidence >= ai_min_confidence

\* C2 witness: a BUY order placed on an AI BUY at or above the threshold
C2_Witness ==
    /\ ev.side = "BUY"
    /\ ev.order = "accepted"
    /\ ev.ai.signal = "BUY"
    /\ ev.ai.confidence >= ai_min_confidence

C4_ExitBeforeEntry ==
    \A i \in 1..Len(bm.log) :
        (bm.log[i].kind = "entry_eval" /\ bm.log[i].sym \in bm.startPos) =>
            \E j \in 1..(i - 1) :
                bm.log[j].kind = "exit_eval" /\ bm.log[j].sym = bm.log[i].sym

\* C5: when the exchange reports a positive free balance, the quantity of
\* every SELL order submitted by _execute_sell_with_retry is the smaller of
\* the tracked quantity and the free balance.
C5_SellsMinOfTrackedAndFree ==
    (ev.side = "SELL" /\ ev.free > 0) =>
        ev.qty = (IF ev.pos.quantity <= ev.free THEN ev.pos.quantity ELSE ev.free)

\* C5 witness: an accepted SELL order for the free balance, which is less
\* than the tracked quantity
C5_Witness ==
    /\ ev.side = "SELL"
    /\ ev.order = "accepted"
    /\ ev.free > 0
    /\ ev.free < ev.pos.quantity
    /\ ev.qty = ev.free

C8_ExhaustionAlertsOnce ==
    (ev.kind = "sell_exhausted" /\ ev.all_failed) =>
        /\ ev.sym \in DOMAIN positions
        /\ ev.appended = 0
        /\ ev.alerts = 1

\* C9: once the trailing stop of a position is active, the stop
\* _check_positions uses for that position never goes down from one check
\* to the next.
C9_TrailingStopNonDecreasing ==
    [][\A s \in Symbols :
          (stops[s].active /\ stops'[s] # NoStop) =>
              stops'[s].stop >= stops[s].stop]_vars

\* C9 witness: a position with an active trailing stop is checked again,
\* in the second tick, at a price below its highest price
C9_Witness ==
    /\ tick.n = 2
    /\ ev.kind \in {"checked", "sell_start"}
    /\ ev.sym \in DOMAIN positions
    /\ stops[ev.sym].active
    /\ ev.pos.highest_price > ev.pos.entry_price
    /\ ev.price < ev.pos.highest_price

\* C10: should_stop_trading answers true, with a reason, whenever the
\* day's realized loss is at least max_daily_loss, or the drawdown is at
\* least 20%, or there are at least 5 consecutive losses.
C10_StopsAtEachLimit ==
    rc.answer # NotAsked =>
        ((\/ -rc.daily_pnl >= 500
          \/ rc.current_drawdown * 100 >= 20 * 10000
          \/ rc.consecutive_losses >= 5)
         => (rc.answer.stop /\ rc.answer.reason # ""))

\* C10 witness: the answer is true at a drawdown of exactly 20% with the
\* other two limits not met
C10_Witness ==
    /\ rc.answer.stop
    /\ rc.answer.reason = "Maximum drawdown reached"
    /\ rc.peak_balance = 1000
    /\ rc.current_drawdown = 2000
    /\ rc.daily_pnl > -500
    /\ rc.consecutive_losses < 5

-----------------------------------------------------------------------------
(* Properties of the circuit breaker, the SELL retries, the exchange       *)
(* client and the position sizing                                          *)

\* C11: while the circuit breaker holds (the realized loss of the day is at
\* the daily cap) no step of BotManager opens a position for any pair, and
\* an iteration of the trading loop that begins with positions open is not
\* skipped: it goes on to evaluate their stop-loss / take-profit exits.
C11_BreakerBlocksEntriesKeepsExits ==
    [][bm.total_pnl <= -5000 =>
         /\ DOMAIN bm'.positions \subseteq DOMAIN bm.positions
         /\ (bm.pc = "loop" /\ bm'.n = bm.n + 1 /\ DOMAIN bm.positions # {})
                => bm'.pc # "loop"]_vars

\* C12: calculate_position_size is pure: a call leaves the Risk State (peak
\* balance, drawdown, daily P&L, win and loss streaks) as it was, and the
\* value it returned is the value a call with the same arguments returns
\* in the Risk State it leaves.
C12_SizingIsPure ==
    [][(rc'.sized.called /\ ~rc.sized.called) =>
         /\ rc'.peak_balance = rc.peak_balance
         /\ rc'.current_drawdown = rc.current_drawdown
         /\ rc'.daily_pnl = rc.daily_pnl
         /\ rc'.consecutive_losses = rc.consecutive_losses
         /\ rc'.consecutive_wins = rc.consecutive_wins
         /\ rc'.sized.size =
                calculate_position_size(rc', rc'.sized.account_balance,
                    rc'.sized.signal_confidence, rc'.sized.volatility_regime,
                    rc'.sized.current_exposure, rc'.sized.strategy_win_rate)]_vars

\* C12 witness: a call made in a drawdown, after wins and losses, that
\* returns a size strictly between the two limits
C12_Witness ==
    /\ rc.sized.called
    /\ rc.current_drawdown > 0
    /\ rc.peak_balance > 0
    /\ rc.daily_pnl # 0
    /\ rc.sized.size > 5000
    /\ rc.sized.size < 250000

\* C18: calculate_position_size returns 0 whenever the size computed from
\* the multipliers is below the minimum position size; in particular it
\* returns 0 for every signal confidence below 50%, whose confidence
\* multiplier is 0.
C18_ZeroBelowMinimum ==
    rc.sized.called =>
        LET a == rc.sized
            by_confidence ==
                (a.account_balance * 2
                   * get_confidence_multiplier(a.signal_confidence)) \div 10
            by_volatility ==
                (by_confidence
                   * get_volatility_multiplier(a.volatility_regime)) \div 10
            by_drawdown ==
                (by_volatility * get_drawdown_multiplier(rc)) \div 10
            computed ==
                IF a.strategy_win_rate = -1 THEN by_drawdown
                ELSE (by_drawdown
                        * calculate_kelly_multiplier(a.strategy_win_rate, 20))
                         \div 100
        IN /\ computed < 5000 => a.size = 0
           /\ a.signal_confidence < 50 => a.size = 0

\* C19: the size returned by calculate_position_size never exceeds the
\* remaining exposure budget (max_total_exposure - current_exposure) and
\* never exceeds the maximum single-position size.
C19_SizeWithinBudgetAndMaximum ==
    rc.sized.called =>
        /\ rc.sized.size <= (10000 - rc.sized.current_exposure) * 100
        /\ rc.sized.size <= 250000

C15_StopDoesNotCancelSell ==
    [][/\ (pc = "sell" /\ is_running /\ ~is_running') =>
              /\ pc' = "sell"
              /\ sell' = sell
              /\ positions' = positions
       /\ (pc = "sell" /\ ~is_running /\ pc' # "sell") =>
              /\ ev'.kind \in {"sell_filled", "sell_dust", "sell_zero",
                                "sell_gone", "sell_exhausted"}
              /\ ev'.kind = "sell_exhausted" => ev'.attempt = ev'.max_retries
       /\ (pc = "sell" /\ ~is_running /\ pc' = "sell") =>
              /\ ev'.kind = "sell_retry"
              /\ sell'.attempt = sell.attempt + 1]_vars

\* C15 witness: a sequence started by _process_pair, so with is_running
\* true, is filled at its third attempt with is_running false
C15_Witness ==
    /\ ~is_running
    /\ ev.kind = "sell_filled"
    /\ ev.max_retries = 3
    /\ ev.attempt = 3
    /\ ev.sym \notin DOMAIN positions

\* C16: any two requests sent through _make_request, by whichever callers,
\* go out at least min_request_interval apart.
C16_RequestsSpacedByInterval ==
    [][(kc'.sends = kc.sends + 1 /\ kc.sends >= 1) =>
          kc'.sent_at - kc.sent_at >= 100]_vars

\* C17: every private request signed by _make_request carries a nonce
\* strictly larger than the nonce of the private request signed before it.
C17_NonceStrictlyIncreases ==
    [][(kc'.signed = kc.signed + 1 /\ kc.signed >= 1) =>
          kc'.last_nonce > kc.last_nonce]_vars

\* C20: a tracked position leaves TradingEngine.positions only in a step
\* that fills a SELL for it, or that drops it as a zero or dust holding
\* after the exchange balance was fetched in that step (TradingEngine has
\* no emergency liquidation); no other step removes a tracked position.
C20_RemovedOnlyByFillOrVerifiedDust ==
    [][\A s \in DOMAIN positions :
          s \notin DOMAIN positions' =>
              /\ ev'.sym = s
              /\ \/ ev'.kind = "sell_filled" /\ ev'.order = "accepted"
                 \/ ev'.kind \in {"sell_dust", "sell_zero"} /\ ev'.free >= 0]_vars

-----------------------------------------------------------------------------
(* Properties of errors, recovery and exits of the TradingEngine *)

\* C21: after an authentication error the engine is not running: a start()
\* that is refused leaves is_running false and starts no trading thread,
\* and an authentication error met while a pair is processed stops the
\* trading loop.
C21_AuthErrorStopsEngine ==
    [][/\ (ev'.kind = "start_refused" /\ ~is_running) =>
              (~is_running' /\ pc' = pc /\ pc' \in {"off", "done"})
       /\ (ev'.kind = "pair_error" /\ ev'.reason = "auth") =>
              ~is_running']_vars

\* C22: a pause of new entries caused by a risk breach (daily loss,
\* drawdown, exposure) is lifted by the trading loop itself: an iteration
\* that begins with every metric back within bounds clears the pause
\* without resume() being called.
C22_RiskPauseLiftedAutomatically ==
    [][(/\ bm.pc = "loop"
        /\ bm'.n = bm.n + 1
        /\ bm.risk_paused
        /\ bm.total_pnl > -5000
        /\ ~bm'.drawdown_exceeded
        /\ TotalExposure(bm.positions) <= 100000)
          => ~bm'.pause_trading]_vars


\* C23 (as stated): after start(), every enabled pair the exchange reports
\* with a positive balance and that is absent from the loaded store is
\* tracked as a recovered position entered at the current price, and the
\* loaded positions are unchanged
C23_SyncRecoversEveryHolding ==
    [][ev'.kind = "started" =>
          /\ \A s \in (config' \cap ev'.held) \ DOMAIN LoadedPositions :
                /\ s \in DOMAIN positions'
                /\ positions'[s].order_id = "recovered"
                /\ positions'[s].entry_price = ev'.price
          /\ \A s \in DOMAIN LoadedPositions :
                s \in DOMAIN positions' /\ positions'[s] = LoadedPositions[s]]_vars

\* C23 (amended): the holdings are recovered when the ticker of the sync can
\* be fetched; when it cannot, nothing is recovered; in both cases the loaded
\* positions are unchanged and nothing else is tracked
C23_SyncRecoversPricedHoldings ==
    [][ev'.kind = "started" =>
          /\ ev'.sync = "ok" =>
                \A s \in (config' \cap ev'.held) \ DOMAIN LoadedPositions :
                    /\ s \in DOMAIN positions'
                    /\ positions'[s].order_id = "recovered"
                    /\ positions'[s].entry_price = ev'.price
          /\ ev'.sync # "ok" => positions' = LoadedPositions
          /\ DOMAIN positions' \subseteq DOMAIN LoadedPositions \cup (config' \cap ev'.held)
          /\ \A s \in DOMAIN LoadedPositions :
                s \in DOMAIN positions' /\ positions'[s] = LoadedPositions[s]]_vars

\* C23 witness: a start found A in the store and A and B on the exchange;
\* B was recovered at the current price and A kept its stored entry
C23_Witness ==
    /\ ev.kind = "started" /\ ev.sync = "ok" /\ ev.held = {"A", "B"}
    /\ config = {"A", "B"} /\ ev.price = 1060
    /\ DOMAIN positions = {"A", "B"}
    /\ positions["A"] = StoredPosition
    /\ positions["B"].order_id = "recovered"
    /\ positions["B"].entry_price = 1060


\* C24: while the MACD stays above the signal line in every check of a
\* symbol, a crossover that has gone stale does not qualify again: a check
\* of a symbol whose crossover expired, with the MACD above the signal line
\* ever since, returns False
C24_StaleCrossoverDoesNotRefire ==
    [][(/\ macd'.calls = macd.calls + 1
        /\ macd.stale[macd'.last.symbol]
        /\ macd'.last.macd_line > macd'.last.signal_line)
          => ~macd'.last.result]_vars


\* C25: within one call of _execute_sell_with_retry, once the exchange has
\* accepted a SELL order for the position, no attempt of that call submits
\* another SELL order for it
C25_NoSellAfterAccepted ==
    [][~(/\ pc = "sell" /\ sell.accepted
         /\ ev'.sym = sell.symbol /\ ev'.order # "none")]_vars


\* C26: at most one trading-loop thread is executing a tick at any time,
\* for every interleaving of start() and stop()
C26_AtMostOneLoopThread ==
    Cardinality({t \in LoopThreads : th.pc[t] = "tick"}) <= 1


\* C27: a position that carries a per-trade stop-loss override is exited
\* for stop-loss (by _check_positions or by _check_sell_signal) only at a
\* price at or below entry x (1 - override %) or at or below its trailing
\* stop
C27_OverrideStopInForce ==
    LET p == ev.pos
        hi == IF p.strategy = "macd_supertrend"
              THEN Max(p.highest_price, ev.price) ELSE p.highest_price
        trail == IF /\ p.strategy = "macd_supertrend"
                    /\ (hi - p.entry_price) * 100 >= 5 * p.entry_price
                    /\ hi * 97 > p.entry_price * 100
                 THEN hi * 970 ELSE 0
        override == p.entry_price * (1000 - p.ai_stop_loss_percent)
    IN (/\ ev.kind = "sell_start"
        /\ ev.reason \in {"STOP_LOSS", "STOP_LOSS_AUTO"}
        /\ p.ai_stop_loss_percent # -1)
          => ev.price * 1000 <= Max(override, trail)


\* C28: in the per-tick position check the stop-loss is looked at before
\* the take-profit, and in the per-pair check the stop-loss before the
\* take-profit and the take-profit before a strategy SELL signal; a check
\* starts at most one exit for its position, and when the stop-loss and the
\* take-profit conditions hold together the exit reason is the stop-loss
C28_StopThenTakeProfitThenSignal ==
    [][LET p == ev'.pos
           auto == {"STOP_LOSS_AUTO", "TAKE_PROFIT_AUTO"}
           fromCheck == \/ ev'.kind = "checked"
                        \/ ev'.kind = "sell_start" /\ ev'.reason \in auto
           fromPair == \/ ev'.kind \in {"hold", "sell_blocked"}
                       \/ ev'.kind = "sell_start" /\ ev'.reason \notin auto
           hi == IF p.strategy = "macd_supertrend"
                 THEN Max(p.highest_price, ev'.price) ELSE p.highest_price
           trail == IF /\ p.strategy = "macd_supertrend"
                       /\ (hi - p.entry_price) * 100 >= 5 * p.entry_price
                       /\ hi * 97 > p.entry_price * 100
                    THEN hi * 970 ELSE 0
           ownStop == p.entry_price *
                        (1000 - (IF p.ai_stop_loss_percent # -1
                                 THEN p.ai_stop_loss_percent ELSE stop_loss_percent))
           ownTake == IF p.ai_take_profit_percent # -1
                      THEN p.ai_take_profit_percent ELSE take_profit_percent
           stopCheck == ev'.price * 1000 <= Max(ownStop, trail)
           takeCheck == (ev'.price - p.entry_price) * 1000 >= ownTake * p.entry_price
           stopPair == (ev'.price - p.entry_price) * 1000 <= -stop_loss_percent * p.entry_price
           takePair == (ev'.price - p.entry_price) * 1000 >= take_profit_percent * p.entry_price
       IN /\ fromCheck =>
               /\ stopCheck => (ev'.kind = "sell_start" /\ ev'.reason = "STOP_LOSS_AUTO")
               /\ (~stopCheck /\ takeCheck) =>
                     (ev'.kind = "sell_start" /\ ev'.reason = "TAKE_PROFIT_AUTO")
               /\ (~stopCheck /\ ~takeCheck) => ev'.kind = "checked"
          /\ fromPair =>
               /\ stopPair => (ev'.kind = "sell_start" /\ ev'.reason = "STOP_LOSS")
               /\ ev'.reason = "STOP_LOSS" => stopPair
               /\ ev'.reason = "TAKE_PROFIT" => (~stopPair /\ takePair)
               /\ ev'.reason = "STRATEGY" => (~stopPair /\ ~takePair)
          /\ ev'.kind = "sell_start" =>
               /\ pc # "sell" /\ pc' = "sell"
               /\ sell'.symbol = ev'.sym /\ sell'.attempt = 0
               /\ pc = "check" =>
                     \A i \in DOMAIN checkTodo' : checkTodo'[i] # ev'.sym]_vars

\* C28 witness: the position check found a position at or below its
\* trailing stop and at or above its take-profit level at the same price,
\* and started the exit with the stop-loss reason
C28_Witness ==
    /\ ev.kind = "sell_start" /\ ev.reason = "STOP_LOSS_AUTO"
    /\ pc = "sell" /\ sell.symbol = ev.sym /\ sell.ret = "check"
    /\ ev.pos.ai_take_profit_percent # -1
    /\ (ev.price - ev.pos.entry_price) * 1000
           >= ev.pos.ai_take_profit_percent * ev.pos.entry_price
    /\ ev.price * 1000 <= Max(ev.pos.highest_price, ev.price) * 970


\* C29: after _execute_buy returns, either no order was accepted and
\* positions and trades_history are unchanged, or the order was accepted and
\* the position is tracked, a BUY trade has been appended and both have been
\* saved
C29_BuyAllOrNothing ==
    [][ev'.kind \in {"buy_skipped", "buy_rejected", "buy_unrecorded", "buy_filled"} =>
          \/ /\ ev'.order # "accepted"
             /\ positions' = positions
             /\ trades_history' = trades_history
          \/ /\ ev'.order = "accepted"
             /\ ev'.sym \in DOMAIN positions'
             /\ trades_history' = Append(trades_history, Trade(ev'.sym, "BUY"))
             /\ positions_file' = Saved(positions')
             /\ trades_file' = Saved(trades_history')]_vars


\* C30: when the position check starts a stop-loss exit and the exchange
\* accepts the SELL order on one of the attempts, the call returns with the
\* position no longer tracked and exactly one SELL trade appended for it
C30_AcceptedStopLossClosesOnce ==
    [][(/\ pc = "sell" /\ pc' # "sell"
        /\ sell.reason = "STOP_LOSS_AUTO"
        /\ (sell.accepted \/ ev'.order = "accepted"))
          => /\ sell.symbol \notin DOMAIN positions'
             /\ Len(trades_history') = sell.trades0 + 1
             /\ trades_history'[Len(trades_history')] = Trade(sell.symbol, "SELL")]_vars

-----------------------------------------------------------------------------
(* Properties of shutdown, error isolation, the paper ledger and drawdown *)

\* C31: after stop() has cleared is_running, the loop still processes every
\* remaining enabled pair of the tick in flight and checks the positions,
\* and then leaves the loop without beginning another tick
C31_StopCompletesTickThenEnds ==
    [][/\ (pc = "pairs" /\ ~is_running /\ todo # <<>> /\ todo' # todo) =>
             (todo' = Tail(todo) /\ ev'.sym = Head(todo))
       /\ (pc = "pairs" /\ ~is_running /\ pc' # pc) => pc' \in {"check", "sell"}
       /\ (pc = "loop" /\ ~is_running /\ pc' # pc) =>
             (pc' = "done" /\ tick'.n = tick.n)]_vars


\* C32: an exception raised while one pair is processed is logged and only
\* that pair is skipped: the pairs after it are still processed in the tick.
\* Stated for BotManager._run_strategies.
C32_ErrorSkipsOnlyThatPair ==
    [][(/\ bm.pc = "strategies" /\ bm.todo # <<>>
        /\ bm'.log = Append(bm.log, Logged("error", Head(bm.todo))))
          => bm'.todo = Tail(bm.todo)]_vars


\* C34: in BotManager._update_positions, closing one position does not keep
\* the positions after it from being looked at in the same pass
C34_CloseDoesNotEndThePass ==
    [][(/\ bm.pc = "update" /\ bm'.pc = "update" /\ bm.todo # <<>>
        /\ Head(bm.todo) \in DOMAIN bm.positions
        /\ Head(bm.todo) \notin DOMAIN bm'.positions)
          => bm'.todo = Tail(bm.todo)]_vars

\* C35: in BotManager the notional (quantity x entry price) of the long
\* position held in a symbol never exceeds MAX_POSITION_SIZE_USD, however
\* many BUY signals the strategies emit for it
C35_PositionWithinMaximum ==
    \A s \in DOMAIN bm.positions :
        bm.positions[s].side = "long" =>
            bm.positions[s].quantity * bm.positions[s].entry_price
                <= MAX_POSITION_SIZE_USD


\* C33: a sell attempt whose balance fetch raised is not aborted and drops
\* nothing as dust or as missing: it submits a SELL order for the whole
\* tracked quantity of the position
C33_BalanceErrorSellsTracked ==
    (/\ ev.kind \in {"sell_filled", "sell_retry", "sell_exhausted",
                      "sell_dust", "sell_zero"}
     /\ ev.free = -1)
        => /\ ev.kind \notin {"sell_dust", "sell_zero"}
           /\ ev.side = "SELL"
           /\ ev.orders >= 1
           /\ ev.qty = ev.pos.quantity

\* an order for a tracked quantity worth less than the minimum order value
\* went out after the balance fetch raised
C33_Witness ==
    /\ ev.kind = "sell_filled"
    /\ ev.free = -1
    /\ ev.qty = ev.pos.quantity
    /\ IsDust(ev.qty, ev.price)


\* C36: should_stop_trading answers (False, "") whenever the daily P&L is
\* above -max_daily_loss, the drawdown is below 20% and fewer than 5 trades
\* in a row were lost; a profitable day in particular never stops trading
C36_NoStopWithinLimits ==
    (/\ rc.answer # NotAsked
     /\ rc.daily_pnl > -max_daily_loss
     /\ rc.current_drawdown < MaxDrawdown
     /\ rc.consecutive_losses < MaxConsecutiveLosses)
        => (rc.answer.stop = FALSE /\ rc.answer.reason = "")

\* C38: the running peak balance never decreases, is never below the
\* balance last reported, and changes only to that balance: after every
\* drawdown update it is the maximum of the previous peak and the balance
\* reported, in RiskCalculator.update_drawdown and in
\* RiskManager.calculate_drawdown alike
C38_PeakIsRunningMaximum ==
    [][/\ rc'.peak_balance >= rc.peak_balance
       /\ rc'.peak_balance >= rc'.last_balance
       /\ rc'.peak_balance # rc.peak_balance =>
              rc'.peak_balance = rc'.last_balance
       /\ \A current_balance \in RiskBalances :
              calculate_drawdown(rc.peak_balance, current_balance).peak_balance
                  = Max(rc.peak_balance, current_balance)]_vars

\* a balance below the peak was reported and the peak stayed
C38_Witness ==
    /\ rc.peak_balance = 1000
    /\ rc.last_balance = 800
    /\ rc.current_drawdown = 2000

\* C40: no call of update_drawdown with a non-negative balance raises, and
\* the drawdown stays between 0 and 1
C40_UpdateDrawdownNeverRaises ==
    /\ rc.error = "none"
    /\ rc.current_drawdown >= 0
    /\ rc.current_drawdown <= 10000


C39_FilledMeansBooked ==
    /\ (kc.order.status = "filled" /\ kc.order.type = "MARKET") =>
           /\ IF kc.order.side = "BUY"
              THEN kc.order.before.USD >= kc.order.amount * kc.order.price
              ELSE kc.order.before.base >= kc.order.amount
           /\ kc.paper_balance =
                  IF kc.order.side = "BUY"
                  THEN PaperLedger(kc.order.before.USD
                                       - kc.order.amount * kc.order.price,
                                   kc.order.before.base + kc.order.amount)
                  ELSE PaperLedger(kc.order.before.USD
                                       + kc.order.amount * kc.order.price,
                                   kc.order.before.base - kc.order.amount)
    /\ kc.paper_balance.USD >= 0
    /\ kc.paper_balance.base >= 0

====
